---- MODULE Spec2Model ----
(***************************************************************************)
(* Technical signal and valuation helpers of the LWP front end, the         *)
(* strategy dialog that validates a weighted formula before saving it, the *)
(* holdings page's filtered summary, the freshness labels of the price and *)
(* holding cells, and the pages' currency formatting.                      *)
(*                                                                         *)
(* JavaScript values are modelled as records: Num(v) is the number v,      *)
(* Null and Undefined are the two absent values.  Prices are drawn from a  *)
(* bounded grid of whole numbers; quotients are exact rationals Rat(n, d). *)
(***************************************************************************)
EXTENDS Integers, Sequences, FiniteSets, TLC

VARIABLES
    trend,              \* a row's closePrice, ma20, ma200 and the rendered getMASignal result
    range,              \* a row's current, low, high and the calculate52WeekPosition result
    strategies,         \* Strategies: the table's rows, as loadData stored them
    target,             \* a strategy table chip: criteria_name, call_type and its getTargetInfo tooltip
    formData,           \* Strategies: the dialog's form (call_type and formula)
    error,              \* Strategies: the error shown in the dialog ('' when none)
    openDialog,         \* Strategies: whether the dialog is open
    editMode,           \* Strategies: editing an existing strategy
    currentStrategyId,  \* Strategies: the id being edited, or Null
    inflight,           \* save requests (create or update) awaiting the server's answer
    validateResult,     \* what validateFormula returned for the present formData ("none" before)
    chips,              \* the target chip rendered beside each criterion of the open dialog
    holdings,           \* ListHoldings: the account's holdings as loadHoldings stored them, or Null
    selectedAssetTypes, \* ListHoldings: the asset types the filter has selected
    summary,            \* ListHoldings: what calculateFilteredSummary returns at this render
    priceUpdated,       \* a price_last_updated cell: its value, the clock, getDaysAgo's label and isStale
    holdingUpdated,     \* a holding's updated_at cell: the clock, formatDaysAgo's label and getDaysAgoColor
    money               \* an amount, its currency, the page that formats it and formatCurrency's text

trendVars == <<trend>>
rangeVars == <<range>>
targetVars == <<target>>
dialogVars == <<strategies, formData, error, openDialog, editMode, currentStrategyId, inflight,
                validateResult, chips>>
holdingsVars == <<holdings, selectedAssetTypes, summary>>
freshVars == <<priceUpdated, holdingUpdated>>
moneyVars == <<money>>
pageVars == <<holdingsVars, freshVars, moneyVars>>
vars == <<trend, range, target, strategies, formData, error, openDialog, editMode, currentStrategyId,
          inflight, validateResult, chips, holdings, selectedAssetTypes, summary, priceUpdated,
          holdingUpdated, money>>

\* ------------------------------------------------------------ bounds
\* Largest whole price on the input grid.
MaxPrice == 3
\* Most criteria in a formula the server hands to the dialog.
MaxCriteria == 2
\* Most save requests awaiting an answer at once.
MaxInflight == 1

\* Most holdings of one asset type in an account.
MaxHoldings == 1

\* Days before today, and days after today, that a timestamp can lie.
MaxDaysBack == 9
MaxDaysAhead == 1

\* Most hours between two renders of the same row.
MaxHoursLater == 12
\* Most digits in the integer part of an amount.
MaxIntegerDigits == 8

\* ------------------------------------------------------------ values
Null == [type |-> "null"]
Undefined == [type |-> "undefined"]
Num(v) == [type |-> "number", val |-> v]

\* A result slot before the function has been applied.
Unset == [type |-> "unset"]

IsNum(x) == x.type = "number"

\* `x == null` of JavaScript: true of null and of undefined.
LooseNull(x) == x.type \in {"null", "undefined"}

\* `!x` of JavaScript for number | null | undefined: absent, or the number 0.
Falsy(x) == LooseNull(x) \/ (IsNum(x) /\ x.val = 0)

\* What an optional numeric field of an upstream row can hold.
PriceInputs == {Null, Undefined} \cup {Num(v) : v \in 0..MaxPrice}

\* ------------------------------------------------------------ rationals
Abs(n) == IF n < 0 THEN -n ELSE n

RECURSIVE Gcd(_, _)
Gcd(a, b) == IF b = 0 THEN a ELSE Gcd(b, a % b)

\* The rational n/d (d # 0) in lowest terms with a positive denominator.
Rat(n, d) ==
    LET g == Gcd(Abs(n), Abs(d))
        s == IF d < 0 THEN -1 ELSE 1
    IN  [num |-> (s * n) \div g, den |-> (s * d) \div g]

RatOfInt(n) == [num |-> n, den |-> 1]
RatLeq(p, q) == p.num * q.den <= q.num * p.den
RatLt(p, q) == p.num * q.den < q.num * p.den
RatMin(p, q) == IF RatLeq(p, q) THEN p ELSE q
RatMax(p, q) == IF RatLeq(p, q) THEN q ELSE p

\* ------------------------------------------------------------ TrendClassifier
\* getMASignal of the stock list (and, line for line, of the ETF list).
SignalNoData == [signal |-> "No Data", color |-> "text.disabled", chipColor |-> "default"]
SignalStrongBullish == [signal |-> "Strong Bullish", color |-> "success.main", chipColor |-> "success"]
SignalBullish == [signal |-> "Bullish", color |-> "success.light", chipColor |-> "success"]
SignalStrongBearish == [signal |-> "Strong Bearish", color |-> "error.main", chipColor |-> "error"]
SignalBearish == [signal |-> "Bearish", color |-> "error.light", chipColor |-> "error"]
SignalNeutral == [signal |-> "Neutral", color |-> "warning.main", chipColor |-> "warning"]

\* Mutant: absence is tested with `== null`, so a zero input is classified.
getMASignal_nullOnly(closePrice, ma20, ma200) ==
    IF LooseNull(closePrice) \/ LooseNull(ma20) \/ LooseNull(ma200)
    THEN SignalNoData
    ELSE IF closePrice.val > ma20.val /\ closePrice.val > ma200.val
         THEN SignalBullish
         ELSE SignalNeutral

\* Mutant: the death-cross test reads ma20AboveMA200 without the negation.
getMASignal_swappedBearish(closePrice, ma20, ma200) ==
    IF Falsy(closePrice) \/ Falsy(ma20) \/ Falsy(ma200)
    THEN SignalNoData
    ELSE LET aboveMA20 == closePrice.val > ma20.val
             aboveMA200 == closePrice.val > ma200.val
             ma20AboveMA200 == ma20.val > ma200.val
         IN  IF aboveMA20 /\ aboveMA200 /\ ma20AboveMA200 THEN SignalStrongBullish
             ELSE IF aboveMA20 /\ aboveMA200 THEN SignalBullish
             ELSE IF ~aboveMA20 /\ ~aboveMA200 /\ ma20AboveMA200 THEN SignalStrongBearish
             ELSE IF ~aboveMA20 /\ ~aboveMA200 THEN SignalBearish
             ELSE SignalNeutral

\* Mutant: a price equal to an average counts as above it.
getMASignal_tiesAbove(closePrice, ma20, ma200) ==
    IF Falsy(closePrice) \/ Falsy(ma20) \/ Falsy(ma200)
    THEN SignalNoData
    ELSE LET aboveMA20 == closePrice.val >= ma20.val
             aboveMA200 == closePrice.val >= ma200.val
             ma20AboveMA200 == ma20.val > ma200.val
         IN  IF aboveMA20 /\ aboveMA200 /\ ma20AboveMA200 THEN SignalStrongBullish
             ELSE IF aboveMA20 /\ aboveMA200 THEN SignalBullish
             ELSE IF ~aboveMA20 /\ ~aboveMA200 /\ ~ma20AboveMA200 THEN SignalStrongBearish
             ELSE IF ~aboveMA20 /\ ~aboveMA200 THEN SignalBearish
             ELSE SignalNeutral

\* Mutant: the Bearish branch is missing, so its rows fall through to Neutral.
getMASignal_noBearish(closePrice, ma20, ma200) ==
    IF Falsy(closePrice) \/ Falsy(ma20) \/ Falsy(ma200)
    THEN SignalNoData
    ELSE LET aboveMA20 == closePrice.val > ma20.val
             aboveMA200 == closePrice.val > ma200.val
             ma20AboveMA200 == ma20.val > ma200.val
         IN  IF aboveMA20 /\ aboveMA200 /\ ma20AboveMA200 THEN SignalStrongBullish
             ELSE IF aboveMA20 /\ aboveMA200 THEN SignalBullish
             ELSE IF ~aboveMA20 /\ ~aboveMA200 /\ ~ma20AboveMA200 THEN SignalStrongBearish
             ELSE SignalNeutral

getMASignal(closePrice, ma20, ma200) ==
    IF Falsy(closePrice) \/ Falsy(ma20) \/ Falsy(ma200)
    THEN SignalNoData
    ELSE LET aboveMA20 == closePrice.val > ma20.val
             aboveMA200 == closePrice.val > ma200.val
             ma20AboveMA200 == ma20.val > ma200.val
         IN  IF aboveMA20 /\ aboveMA200 /\ ma20AboveMA200 THEN SignalStrongBullish
             ELSE IF aboveMA20 /\ aboveMA200 THEN SignalBullish
             ELSE IF ~aboveMA20 /\ ~aboveMA200 /\ ~ma20AboveMA200 THEN SignalStrongBearish
             ELSE IF ~aboveMA20 /\ ~aboveMA200 THEN SignalBearish
             ELSE SignalNeutral

\* ------------------------------------------------------------ RangePositioner
\* What JavaScript's division leaves when the divisor is 0.
NaN == [type |-> "NaN"]

\* Mutant: the position is returned without Math.max / Math.min.
calculate52WeekPosition_unclamped(current, low, high) ==
    IF LooseNull(current) \/ LooseNull(low) \/ LooseNull(high) \/ high = low
    THEN RatOfInt(0)
    ELSE Rat((current.val - low.val) * 100, high.val - low.val)

\* Mutant: the numerator measures from the high instead of the low.
calculate52WeekPosition_fromHigh(current, low, high) ==
    IF LooseNull(current) \/ LooseNull(low) \/ LooseNull(high) \/ high = low
    THEN RatOfInt(0)
    ELSE LET position == Rat((current.val - high.val) * 100, high.val - low.val)
         IN  RatMax(RatOfInt(0), RatMin(RatOfInt(100), position))

\* Mutant: the `high === low` test is missing; x/0 is +Infinity (clamped to 100),
\* -Infinity (clamped to 0) or NaN (which Math.min and Math.max propagate).
calculate52WeekPosition_noDegenerate(current, low, high) ==
    IF LooseNull(current) \/ LooseNull(low) \/ LooseNull(high)
    THEN RatOfInt(0)
    ELSE IF high.val = low.val
         THEN IF current.val > low.val THEN RatOfInt(100)
              ELSE IF current.val < low.val THEN RatOfInt(0)
              ELSE NaN
         ELSE LET position == Rat((current.val - low.val) * 100, high.val - low.val)
              IN  RatMax(RatOfInt(0), RatMin(RatOfInt(100), position))

calculate52WeekPosition(current, low, high) ==
    IF LooseNull(current) \/ LooseNull(low) \/ LooseNull(high) \/ high = low
    THEN RatOfInt(0)
    ELSE LET position == Rat((current.val - low.val) * 100, high.val - low.val)
         IN  RatMax(RatOfInt(0), RatMin(RatOfInt(100), position))

\* getProgressColor(percentage)
getProgressColor(percentage) ==
    IF RatLt(percentage, RatOfInt(28)) THEN "success"
    ELSE IF RatLt(percentage, RatOfInt(55)) THEN "warning"
    ELSE "error"

\* Mutant: the column's value is computed without the guard for absent prices.
valueGetter52w_noGuard(price_last_close, price_52w_low, price_52w_high) ==
    calculate52WeekPosition(price_last_close, price_52w_low, price_52w_high)

\* valueGetter of the 52w_range column: the value the grid sorts by.
valueGetter52w(price_last_close, price_52w_low, price_52w_high) ==
    IF LooseNull(price_last_close) \/ LooseNull(price_52w_low) \/ LooseNull(price_52w_high)
    THEN Null
    ELSE calculate52WeekPosition(price_last_close, price_52w_low, price_52w_high)

\* renderCell of the 52w_range column: 'No data', or the progress bar with its
\* position and colour.
renderCell52w(price_last_close, price_52w_low, price_52w_high) ==
    IF LooseNull(price_last_close) \/ LooseNull(price_52w_low) \/ LooseNull(price_52w_high)
    THEN [text |-> "No data", position |-> Null, color |-> "text.secondary"]
    ELSE LET position == calculate52WeekPosition(price_last_close, price_52w_low, price_52w_high)
         IN  [text |-> "", position |-> position, color |-> getProgressColor(position)]

\* renderCell of the price_last_close column: the colour of the price.
priceColorOf(price_last_close, price_52w_low, price_52w_high) ==
    IF ~LooseNull(price_last_close) /\ ~LooseNull(price_52w_low) /\ ~LooseNull(price_52w_high)
    THEN LET position == calculate52WeekPosition(price_last_close, price_52w_low, price_52w_high)
             colorType == getProgressColor(position)
         IN  IF colorType = "success" THEN "success.main"
             ELSE IF colorType = "warning" THEN "warning.main"
             ELSE "error.main"
    ELSE "text.primary"

\* ------------------------------------------------------------ strings
\* A criterion name is a sequence of characters, so that trim, toLowerCase and
\* replace are computed character by character.  Other texts are strings.
Whitespace == {" ", "\t", "\n"}
LowerLetters == <<"a", "b", "c", "d", "e", "f", "g", "h", "i", "j", "k", "l", "m",
                  "n", "o", "p", "q", "r", "s", "t", "u", "v", "w", "x", "y", "z">>
UpperLetters == <<"A", "B", "C", "D", "E", "F", "G", "H", "I", "J", "K", "L", "M",
                  "N", "O", "P", "Q", "R", "S", "T", "U", "V", "W", "X", "Y", "Z">>

S_empty == << >>
S_blank == <<" ">>
S_pe_ratio == <<"p", "e", "_", "r", "a", "t", "i", "o">>
S_pegy_index == <<"p", "e", "g", "y", "_", "i", "n", "d", "e", "x">>
S_52w_range == <<"5", "2", "w", "_", "r", "a", "n", "g", "e">>
S_peg_index == <<"p", "e", "g", "_", "i", "n", "d", "e", "x">>
S_roe == <<"r", "o", "e">>
S_PE_Ratio == <<"P", "E", " ", "R", "a", "t", "i", "o">>

\* String.prototype.trim: white space is dropped from both ends.
RECURSIVE trimStart(_)
trimStart(s) == IF s # << >> /\ Head(s) \in Whitespace THEN trimStart(Tail(s)) ELSE s
RECURSIVE trimEnd(_)
trimEnd(s) ==
    IF s # << >> /\ s[Len(s)] \in Whitespace THEN trimEnd(SubSeq(s, 1, Len(s) - 1)) ELSE s
trim(s) == trimEnd(trimStart(s))

LetterIndex(letters, c) == CHOOSE i \in 1..Len(letters) : letters[i] = c
IsIn(letters, c) == \E i \in 1..Len(letters) : letters[i] = c
toLowerCase(s) ==
    [i \in 1..Len(s) |->
        IF IsIn(UpperLetters, s[i]) THEN LowerLetters[LetterIndex(UpperLetters, s[i])] ELSE s[i]]
toUpperCase(s) ==
    [i \in 1..Len(s) |->
        IF IsIn(LowerLetters, s[i]) THEN UpperLetters[LetterIndex(LowerLetters, s[i])] ELSE s[i]]

\* String.prototype.replace with a one-character string pattern: the first
\* occurrence only.
replace(s, from, to) ==
    IF \E i \in 1..Len(s) : s[i] = from
    THEN LET k == CHOOSE i \in 1..Len(s) : s[i] = from /\ \A j \in 1..(i - 1) : s[j] # from
         IN  [i \in 1..Len(s) |-> IF i = k THEN to ELSE s[i]]
    ELSE s

\* ------------------------------------------------------------ StrategyScorer: registry
BUY == "BUY"
SELL == "SELL"
CallType == {BUY, SELL}

AVAILABLE_CRITERIA ==
    << [value |-> S_pe_ratio, label |-> "P/E Ratio",
        description |-> <<"Price-to-Earnings Ratio (threshold: ", "35", ")">>],
       [value |-> S_pegy_index, label |-> "PEGY Index",
        description |-> <<"PEG Yield Index (threshold: ", "1.5", ")">>],
       [value |-> S_52w_range, label |-> "52-Week Range",
        description |-> <<"52-week position percentage (threshold: ", "28", "%)">>] >>

ProRataScoring == "Pro-rata scoring"

\* Mutant: the SELL branch was copied from BUY and its comparison left unturned.
getTargetInfo_sellAsBuy(criteria_name, call_type) ==
    LET criteriaLower == replace(toLowerCase(criteria_name), " ", "_")
    IN  CASE criteriaLower = S_pe_ratio -> "Target: <35 (lower is better)"
          [] criteriaLower = S_pegy_index -> "Target: <1.5 (lower is better)"
          [] criteriaLower = S_52w_range -> "Target: <28% (lower is better)"
          [] OTHER -> ProRataScoring

getTargetInfo(criteria_name, call_type) ==
    LET criteriaLower == replace(toLowerCase(criteria_name), " ", "_")
    IN  IF call_type = BUY
        THEN CASE criteriaLower = S_pe_ratio -> "Target: <35 (lower is better)"
               [] criteriaLower = S_pegy_index -> "Target: <1.5 (lower is better)"
               [] criteriaLower = S_52w_range -> "Target: <28% (lower is better)"
               [] OTHER -> ProRataScoring
        ELSE CASE criteriaLower = S_pe_ratio -> "Target: >35 (higher is better)"
               [] criteriaLower = S_pegy_index -> "Target: >1.5 (higher is better)"
               [] criteriaLower = S_52w_range -> "Target: >28% (higher is better)"
               [] OTHER -> ProRataScoring

\* ------------------------------------------------------------ StrategyScorer: weights
\* A weight is a whole number of 1/250ths: One is the 1.0 that validateFormula
\* compares the total with, 150 is 0.6, 2 is 0.008.  On this grid no total is
\* exactly 0.01 away from 1.0, the one distance at which the rounding of
\* IEEE doubles, and not the typed decimals, decides the comparison; everywhere
\* else the exact comparison below is the code's.
One == 250

\* Weights a stored formula can carry: -0.1, 0.008, 0.4, 0.5, 0.6, 1.0, 1.1.
WeightInputs == {-25, 2, 100, 125, 150, One, 275}

\* Array.prototype.reduce((sum, item) => sum + item.weight, 0)
RECURSIVE totalWeightOf(_)
totalWeightOf(formula) ==
    IF formula = << >> THEN 0
    ELSE totalWeightOf(SubSeq(formula, 1, Len(formula) - 1)) + formula[Len(formula)].weight

\* Number.prototype.toFixed(2) of w/250: the nearest hundredth (no tie arises on
\* the grid), the sign kept, two fraction digits written.
toFixed2(w) ==
    LET h == (4 * Abs(w) + 5) \div 10
    IN  (IF w < 0 THEN "-" ELSE "") \o ToString(h \div 100) \o "."
            \o ToString((h % 100) \div 10) \o ToString(h % 10)

ErrTotalWeight(totalWeight) ==
    "Total weight must equal 1.0 (currently " \o toFixed2(totalWeight) \o ")"
ErrCriteriaName == "All criteria must have a name"
ErrWeightRange == "Each weight must be between 0 and 1"

\* The for-loop of validateFormula: the first criterion, in list order, that
\* fails the name test or, next, the weight test decides; "" when none does.
RECURSIVE firstCriterionError(_)
firstCriterionError(formula) ==
    IF formula = << >> THEN ""
    ELSE LET item == Head(formula)
         IN  IF trim(item.criteria_name) = << >> THEN ErrCriteriaName
             ELSE IF item.weight < 0 \/ item.weight > One THEN ErrWeightRange
             ELSE firstCriterionError(Tail(formula))

\* Mutant: the name is tested without trim().
RECURSIVE firstCriterionError_noTrim(_)
firstCriterionError_noTrim(formula) ==
    IF formula = << >> THEN ""
    ELSE LET item == Head(formula)
         IN  IF item.criteria_name = << >> THEN ErrCriteriaName
             ELSE IF item.weight < 0 \/ item.weight > One THEN ErrWeightRange
             ELSE firstCriterionError_noTrim(Tail(formula))

\* Mutant: the name is tested without trim().
validateFormula_noTrim(formula, shown) ==
    LET totalWeight == totalWeightOf(formula)
    IN  IF 100 * Abs(totalWeight - One) > One
        THEN [ok |-> FALSE, error |-> ErrTotalWeight(totalWeight)]
        ELSE LET e == firstCriterionError_noTrim(formula)
             IN  IF e # "" THEN [ok |-> FALSE, error |-> e]
                 ELSE [ok |-> TRUE, error |-> shown]

\* Mutant: the weight-range test is missing from the loop.
validateFormula_noRangeCheck(formula, shown) ==
    LET totalWeight == totalWeightOf(formula)
    IN  IF 100 * Abs(totalWeight - One) > One
        THEN [ok |-> FALSE, error |-> ErrTotalWeight(totalWeight)]
        ELSE IF \E i \in 1..Len(formula) : trim(formula[i].criteria_name) = << >>
             THEN [ok |-> FALSE, error |-> ErrCriteriaName]
             ELSE [ok |-> TRUE, error |-> shown]

\* Mutant: unknown criterion names are rejected.
validateFormula_strictNames(formula, shown) ==
    LET totalWeight == totalWeightOf(formula)
    IN  IF 100 * Abs(totalWeight - One) > One
        THEN [ok |-> FALSE, error |-> ErrTotalWeight(totalWeight)]
        ELSE LET e == firstCriterionError(formula)
             IN  IF e # "" THEN [ok |-> FALSE, error |-> e]
                 ELSE IF \E i \in 1..Len(formula) :
                            \A k \in 1..Len(AVAILABLE_CRITERIA) :
                                AVAILABLE_CRITERIA[k].value # formula[i].criteria_name
                      THEN [ok |-> FALSE, error |-> ErrCriteriaName]
                      ELSE [ok |-> TRUE, error |-> shown]

\* Mutant: the criteria are examined before the total weight.
validateFormula_criteriaFirst(formula, shown) ==
    LET totalWeight == totalWeightOf(formula)
        e == firstCriterionError(formula)
    IN  IF e # "" THEN [ok |-> FALSE, error |-> e]
        ELSE IF 100 * Abs(totalWeight - One) > One
        THEN [ok |-> FALSE, error |-> ErrTotalWeight(totalWeight)]
        ELSE [ok |-> TRUE, error |-> shown]

\* Mutant: the total weight is not examined.
validateFormula_noSumCheck(formula, shown) ==
    LET e == firstCriterionError(formula)
    IN  IF e # "" THEN [ok |-> FALSE, error |-> e]
        ELSE [ok |-> TRUE, error |-> shown]

\* Mutant: a failing formula is refused without any error being set.
validateFormula_silent(formula, shown) ==
    LET totalWeight == totalWeightOf(formula)
    IN  IF 100 * Abs(totalWeight - One) > One
        THEN [ok |-> FALSE, error |-> shown]
        ELSE LET e == firstCriterionError(formula)
             IN  IF e # "" THEN [ok |-> FALSE, error |-> shown]
                 ELSE [ok |-> TRUE, error |-> shown]

\* validateFormula on formData.formula: what it returns, and the error shown
\* afterwards (setError in the failing branches; `shown` is left as it was
\* when the formula passes).
validateFormula(formula, shown) ==
    LET totalWeight == totalWeightOf(formula)
    IN  IF 100 * Abs(totalWeight - One) > One
        THEN [ok |-> FALSE, error |-> ErrTotalWeight(totalWeight)]
        ELSE LET e == firstCriterionError(formula)
             IN  IF e # "" THEN [ok |-> FALSE, error |-> e]
                 ELSE [ok |-> TRUE, error |-> shown]

\* The composite score of an evaluated formula: each criterion contributes its
\* weight when its metric is on the favourable side and nothing otherwise;
\* `favorable` is the set of positions whose metric is favourable.
RECURSIVE compositeScore(_, _)
compositeScore(formula, favorable) ==
    IF formula = << >> THEN 0
    ELSE compositeScore(SubSeq(formula, 1, Len(formula) - 1), favorable)
            + (IF Len(formula) \in favorable THEN formula[Len(formula)].weight ELSE 0)

\* ------------------------------------------------------------ Strategies dialog
\* Criterion names a stored strategy can carry: the server, not the dialog's
\* Select, decides them.
StoredNames == {S_empty, S_blank, S_pe_ratio, S_PE_Ratio, S_roe}
StrategyIds == {1}

Criterion == [criteria_name : StoredNames, weight : WeightInputs]
Formulas == UNION {[1..n -> Criterion] : n \in 0..MaxCriteria}

\* The rows of the strategy table (response.data of strategiesAPI.getAll).
ServerStrategies == [id : StrategyIds, call_type : CallType, formula : Formulas]

\* Texts the server can send as error.response.data.detail ("" when it sends none).
ServerDetails == {"", "Strategy with this name already exists"}

NoChip == ""

\* The dialog's criterion rows: a chip with getTargetInfo's text beside every
\* criterion whose name is not the empty string; nothing is rendered while
\* the dialog is closed.
renderChips(fd, open) ==
    IF open
    THEN [i \in 1..Len(fd.formula) |->
            IF fd.formula[i].criteria_name # << >>
            THEN getTargetInfo(fd.formula[i].criteria_name, fd.call_type)
            ELSE NoChip]
    ELSE << >>

InitialFormData == [call_type |-> BUY, formula |-> <<[criteria_name |-> S_empty, weight |-> 0]>>]

\* handleOpenDialog(strategy): the Edit button of a table row.
handleOpenDialogEdit(strategy) ==
    /\ ~openDialog
    /\ editMode' = TRUE
    /\ currentStrategyId' = Num(strategy.id)
    /\ formData' = [call_type |-> strategy.call_type, formula |-> strategy.formula]
    /\ error' = ""
    /\ openDialog' = TRUE
    /\ validateResult' = "none"
    /\ chips' = renderChips(formData', TRUE)
    /\ UNCHANGED <<strategies, inflight, trend, range, target, pageVars>>

\* handleOpenDialog(): the Add New Strategy button.
handleOpenDialogNew ==
    /\ ~openDialog
    /\ editMode' = FALSE
    /\ currentStrategyId' = Null
    /\ formData' = InitialFormData
    /\ error' = ""
    /\ openDialog' = TRUE
    /\ validateResult' = "none"
    /\ chips' = renderChips(formData', TRUE)
    /\ UNCHANGED <<strategies, inflight, trend, range, target, pageVars>>

\* handleCloseDialog: Cancel, or the dialog's onClose.
handleCloseDialog ==
    /\ openDialog
    /\ openDialog' = FALSE
    /\ error' = ""
    /\ chips' = renderChips(formData, FALSE)
    /\ UNCHANGED <<strategies, formData, editMode, currentStrategyId, inflight, validateResult,
                   trend, range, target, pageVars>>

\* The Call Type field's onChange.
handleCallTypeChange(call_type) ==
    /\ openDialog
    /\ call_type # formData.call_type
    /\ formData' = [formData EXCEPT !.call_type = call_type]
    /\ validateResult' = "none"
    /\ chips' = renderChips(formData', TRUE)
    /\ UNCHANGED <<strategies, error, openDialog, editMode, currentStrategyId, inflight,
                   trend, range, target, pageVars>>

\* Mutant: handleSubmit without the validateFormula gate.
handleSubmit_ungated ==
    /\ openDialog
    /\ inflight < MaxInflight
    /\ LET r == validateFormula(formData.formula, error)
       IN  /\ error' = r.error
           /\ validateResult' = IF r.ok THEN "pass" ELSE "fail"
    /\ inflight' = inflight + 1
    /\ UNCHANGED <<strategies, formData, openDialog, editMode, currentStrategyId, chips,
                   trend, range, target, pageVars>>

\* handleSubmit up to its await: validateFormula, and the create or update
\* request when the formula passed.
handleSubmit ==
    /\ openDialog
    /\ LET r == validateFormula(formData.formula, error)
       IN  /\ r.ok => inflight < MaxInflight
           /\ error' = r.error
           /\ validateResult' = IF r.ok THEN "pass" ELSE "fail"
           /\ inflight' = IF r.ok THEN inflight + 1 ELSE inflight
    /\ UNCHANGED <<strategies, formData, openDialog, editMode, currentStrategyId, chips,
                   trend, range, target, pageVars>>

\* handleSubmit after its await, the request fulfilled: handleCloseDialog()
\* (loadData() then refreshes the table, which the dialog does not read).
SaveResolved ==
    /\ inflight > 0
    /\ inflight' = inflight - 1
    /\ openDialog' = FALSE
    /\ error' = ""
    /\ chips' = renderChips(formData, FALSE)
    /\ UNCHANGED <<strategies, formData, editMode, currentStrategyId, validateResult,
                   trend, range, target, pageVars>>

\* handleSubmit after its await, the request rejected: the catch block.
SaveRejected(detail) ==
    /\ inflight > 0
    /\ inflight' = inflight - 1
    /\ error' = IF detail # "" THEN detail ELSE "Failed to save strategy"
    /\ UNCHANGED <<strategies, formData, openDialog, editMode, currentStrategyId, validateResult,
                   chips, trend, range, target, pageVars>>

\* ------------------------------------------------------------ criterion rows
\* The value picked in the Criteria Name Select: its first MenuItem.
SelectValues == {AVAILABLE_CRITERIA[1].value}

\* Texts the Weight field hands to its onChange as e.target.value: a number
\* input yields "" while its content is no number, and its min and max
\* attributes do not stop typing beyond them.  Three texts are typed here.
WeightTexts == {"", "0.5", "1"}

\* Number(value) on those texts, in units of 1/One.
NumberOf(value) ==
    CASE value = "" -> 0
      [] value = "0.5" -> 125
      [] value = "1" -> One

\* handleAddCriteria: the Add Criteria button.
handleAddCriteria ==
    /\ openDialog
    /\ Len(formData.formula) < MaxCriteria
    /\ formData' = [formData EXCEPT
                      !.formula = Append(@, [criteria_name |-> S_empty, weight |-> 0])]
    /\ chips' = renderChips(formData', TRUE)
    /\ UNCHANGED <<strategies, error, openDialog, editMode, currentStrategyId, inflight,
                   validateResult, trend, range, target, pageVars>>

\* handleRemoveCriteria: a row's remove button, disabled while the formula has
\* exactly one row.
handleRemoveCriteria(index) ==
    /\ openDialog
    /\ index \in 1..Len(formData.formula)
    /\ Len(formData.formula) # 1
    /\ formData' = [formData EXCEPT
                      !.formula = SubSeq(@, 1, index - 1) \o SubSeq(@, index + 1, Len(@))]
    /\ chips' = renderChips(formData', TRUE)
    /\ UNCHANGED <<strategies, error, openDialog, editMode, currentStrategyId, inflight,
                   validateResult, trend, range, target, pageVars>>

\* handleCriteriaChange(index, 'criteria_name', e.target.value)
handleCriteriaNameChange(index, value) ==
    /\ openDialog
    /\ index \in 1..Len(formData.formula)
    /\ formData.formula[index].criteria_name # value
    /\ formData' = [formData EXCEPT !.formula[index].criteria_name = value]
    /\ chips' = renderChips(formData', TRUE)
    /\ UNCHANGED <<strategies, error, openDialog, editMode, currentStrategyId, inflight,
                   validateResult, trend, range, target, pageVars>>

\* handleCriteriaChange(index, 'weight', e.target.value)
handleCriteriaWeightChange(index, value) ==
    /\ openDialog
    /\ index \in 1..Len(formData.formula)
    /\ formData.formula[index].weight # NumberOf(value)
    /\ formData' = [formData EXCEPT !.formula[index].weight = NumberOf(value)]
    /\ chips' = renderChips(formData', TRUE)
    /\ UNCHANGED <<strategies, error, openDialog, editMode, currentStrategyId, inflight,
                   validateResult, trend, range, target, pageVars>>

\* ------------------------------------------------------------ strategy table tooltips
\* Spellings of a criterion name a stored strategy may carry.
Spaced(s) == [i \in 1..Len(s) |-> IF s[i] = "_" THEN " " ELSE s[i]]
Capitalised(s) == IF s = << >> THEN s ELSE toUpperCase(<<Head(s)>>) \o Tail(s)
Spellings(s) ==
    {s, toUpperCase(s), Spaced(s), toUpperCase(Spaced(s)), Capitalised(s), <<" ">> \o s}
DisplayedNames ==
    UNION {Spellings(s) : s \in {S_pe_ratio, S_pegy_index, S_52w_range, S_peg_index, S_roe}}
        \cup {S_PE_Ratio, S_empty, S_blank}

\* ------------------------------------------------------------ PortfolioAggregator
\* The asset types of the filter, in the order calculateFilteredSummary visits them.
AssetTypes == <<"stocks", "etfs", "mutual_funds", "bonds">>
AllAssetTypes == {AssetTypes[k] : k \in 1..Len(AssetTypes)}

\* invested_value and current_value of a holding as the server sends them:
\* a holding acquired at no cost, one that gained and one that lost.
HoldingRows ==
    {[invested_value |-> 0, current_value |-> 1],
     [invested_value |-> 1, current_value |-> 3],
     [invested_value |-> 2, current_value |-> 1]}

HoldingLists == UNION {[1..n -> HoldingRows] : n \in 0..MaxHoldings}

\* response.data.holdings of holdingAccountsAPI.getHoldings.
ServerHoldings ==
    [stocks : HoldingLists, etfs : HoldingLists, mutual_funds : HoldingLists, bonds : HoldingLists]

\* The forEach of one asset type: the running total after every row.
RECURSIVE sumInvested(_)
sumInvested(rows) ==
    IF rows = << >> THEN 0 ELSE Head(rows).invested_value + sumInvested(Tail(rows))

RECURSIVE sumCurrent(_)
sumCurrent(rows) ==
    IF rows = << >> THEN 0 ELSE Head(rows).current_value + sumCurrent(Tail(rows))

\* Mutant: the percentage is taken of the current value.
calculateFilteredSummary_pctOfCurrent(h, selected) ==
    IF h = Null THEN Null
    ELSE LET included == {t \in AllAssetTypes : t \in selected}
             RECURSIVE total(_, _)
             total(k, which) ==
                 IF k = 0 THEN 0
                 ELSE total(k - 1, which) +
                      (IF AssetTypes[k] \in included
                       THEN (CASE which = "invested" -> sumInvested(h[AssetTypes[k]])
                               [] which = "current" -> sumCurrent(h[AssetTypes[k]])
                               [] OTHER -> Len(h[AssetTypes[k]]))
                       ELSE 0)
             totalInvested == total(Len(AssetTypes), "invested")
             totalCurrentValue == total(Len(AssetTypes), "current")
             totalProfitLoss == totalCurrentValue - totalInvested
         IN  [totalInvested |-> totalInvested,
              totalCurrentValue |-> totalCurrentValue,
              totalProfitLoss |-> totalProfitLoss,
              totalProfitLossPercentage |->
                  IF totalCurrentValue > 0 THEN Rat(totalProfitLoss * 100, totalCurrentValue)
                  ELSE RatOfInt(0),
              totalCount |-> total(Len(AssetTypes), "count")]

\* Mutant: every asset type is summed, selected or not.
calculateFilteredSummary_unfiltered(h, selected) ==
    IF h = Null THEN Null
    ELSE LET RECURSIVE total(_, _)
             total(k, which) ==
                 IF k = 0 THEN 0
                 ELSE total(k - 1, which) +
                      (CASE which = "invested" -> sumInvested(h[AssetTypes[k]])
                         [] which = "current" -> sumCurrent(h[AssetTypes[k]])
                         [] OTHER -> Len(h[AssetTypes[k]]))
             totalInvested == total(Len(AssetTypes), "invested")
             totalCurrentValue == total(Len(AssetTypes), "current")
             totalProfitLoss == totalCurrentValue - totalInvested
         IN  [totalInvested |-> totalInvested,
              totalCurrentValue |-> totalCurrentValue,
              totalProfitLoss |-> totalProfitLoss,
              totalProfitLossPercentage |->
                  IF totalInvested > 0 THEN Rat(totalProfitLoss * 100, totalInvested)
                  ELSE RatOfInt(0),
              totalCount |-> total(Len(AssetTypes), "count")]

\* Mutant: invested_value is summed into the current total and current_value
\* into the invested total.
calculateFilteredSummary_swapped(h, selected) ==
    IF h = Null THEN Null
    ELSE LET RECURSIVE total(_, _)
             total(k, which) ==
                 IF k = 0 THEN 0
                 ELSE total(k - 1, which) +
                      (IF AssetTypes[k] \in selected
                       THEN (CASE which = "invested" -> sumCurrent(h[AssetTypes[k]])
                               [] which = "current" -> sumInvested(h[AssetTypes[k]])
                               [] OTHER -> Len(h[AssetTypes[k]]))
                       ELSE 0)
             totalInvested == total(Len(AssetTypes), "invested")
             totalCurrentValue == total(Len(AssetTypes), "current")
             totalProfitLoss == totalCurrentValue - totalInvested
         IN  [totalInvested |-> totalInvested,
              totalCurrentValue |-> totalCurrentValue,
              totalProfitLoss |-> totalProfitLoss,
              totalProfitLossPercentage |->
                  IF totalInvested > 0 THEN Rat(totalProfitLoss * 100, totalInvested)
                  ELSE RatOfInt(0),
              totalCount |-> total(Len(AssetTypes), "count")]

\* calculateFilteredSummary: null while the holdings are not loaded; otherwise
\* the four `if (selectedAssetTypes.includes(...))` blocks in source order,
\* then the profit/loss and its percentage of the invested total.
calculateFilteredSummary(h, selected) ==
    IF h = Null THEN Null
    ELSE LET RECURSIVE total(_, _)
             total(k, which) ==
                 IF k = 0 THEN 0
                 ELSE total(k - 1, which) +
                      (IF AssetTypes[k] \in selected
                       THEN (CASE which = "invested" -> sumInvested(h[AssetTypes[k]])
                               [] which = "current" -> sumCurrent(h[AssetTypes[k]])
                               [] OTHER -> Len(h[AssetTypes[k]]))
                       ELSE 0)
             totalInvested == total(Len(AssetTypes), "invested")
             totalCurrentValue == total(Len(AssetTypes), "current")
             totalProfitLoss == totalCurrentValue - totalInvested
         IN  [totalInvested |-> totalInvested,
              totalCurrentValue |-> totalCurrentValue,
              totalProfitLoss |-> totalProfitLoss,
              totalProfitLossPercentage |->
                  IF totalInvested > 0 THEN Rat(totalProfitLoss * 100, totalInvested)
                  ELSE RatOfInt(0),
              totalCount |-> total(Len(AssetTypes), "count")]

\* A position as the server values it before sending it: the row carries
\* invested_value = quantity x average_price and
\* current_value = quantity x (current_price if present, else average_price).
holdingValue(quantity, average_price, current_price) ==
    [quantity |-> quantity,
     average_price |-> average_price,
     current_price |-> current_price,
     invested_value |-> quantity * average_price,
     current_value |-> quantity * (IF LooseNull(current_price) THEN average_price
                                   ELSE current_price.val)]

\* Positions of an account: quantities, average prices and current prices
\* (absent when the server has no quote).
Quantities == {1, 10}
AveragePrices == {50, 100}
CurrentPrices == {Null, Num(80), Num(120)}
ValuedRows ==
    {holdingValue(quantity, average_price, current_price) :
        quantity \in Quantities, average_price \in AveragePrices, current_price \in CurrentPrices}
ValuedLists == UNION {[1..n -> ValuedRows] : n \in 0..MaxHoldings}
ValuedHoldings ==
    [stocks : ValuedLists, etfs : ValuedLists, mutual_funds : {<< >>}, bonds : {<< >>}]

\* loadHoldings, the request fulfilled: setHoldings(response.data); the page
\* renders again and calculateFilteredSummary runs on the new holdings.
loadHoldings(data) ==
    /\ holdings = Null
    /\ holdings' = data
    /\ summary' = calculateFilteredSummary(data, selectedAssetTypes)
    /\ UNCHANGED <<selectedAssetTypes, freshVars, moneyVars, trend, range, target, dialogVars>>

\* Mutant: the new selection is stored even when it is empty.
handleAssetTypeChange_unguarded(newTypes) ==
    /\ newTypes # selectedAssetTypes
    /\ selectedAssetTypes' = newTypes
    /\ summary' = calculateFilteredSummary(holdings, selectedAssetTypes')
    /\ UNCHANGED <<holdings, freshVars, moneyVars, trend, range, target, dialogVars>>

\* handleAssetTypeChange: a toggle of the filter; a change that would leave no
\* asset type selected is dropped.
handleAssetTypeChange(newTypes) ==
    /\ newTypes # selectedAssetTypes
    /\ selectedAssetTypes' = IF Cardinality(newTypes) > 0 THEN newTypes ELSE selectedAssetTypes
    /\ summary' = calculateFilteredSummary(holdings, selectedAssetTypes')
    /\ UNCHANGED <<holdings, freshVars, moneyVars, trend, range, target, dialogVars>>

\* What the ToggleButtonGroup hands to onChange when one button is pressed:
\* the selection with that button's value added or removed.
Toggled(selected, t) == IF t \in selected THEN selected \ {t} ELSE selected \cup {t}

\* ------------------------------------------------------------ FreshnessClassifier
\* Time is counted in whole hours from a local midnight; a Date is the hour it
\* falls in.  1000 * 60 * 60 * 24 milliseconds are HoursPerDay hours.
HoursPerDay == 24
\* The age, in days, beyond which a price is shown as stale: 7 * 24 * 60 * 60 * 1000 ms.
StaleDays == 7
\* The age, in days, beyond which a holding is shown as stale.
HoldingStaleDays == 2

\* The local midnight that begins today; the clock reads some hour of today.
Today == MaxDaysBack * HoursPerDay
Clock == {Today + h : h \in 0..(HoursPerDay - 1)}

\* A timestamp string the server sent, as the Date `new Date(date)` makes of it.
Stamp(t) == [type |-> "date", at |-> t]
EmptyString == [type |-> "string", val |-> ""]
Bool(b) == [type |-> "boolean", val |-> b]

\* Every hour from MaxDaysBack days before today to MaxDaysAhead days after it.
Stamps == {Stamp(t) : t \in 0..((MaxDaysBack + MaxDaysAhead + 1) * HoursPerDay - 1)}

\* price_last_updated of a row: a timestamp, or null, undefined or ''.
LastUpdatedInputs == Stamps \cup {Null, Undefined, EmptyString}

\* `!date` and `params.value &&`: null, undefined and '' are falsy, a timestamp
\* string is truthy; of a boolean, its value.
Truthy(x) == x.type = "date" \/ (x.type = "boolean" /\ x.val)

\* setHours(0, 0, 0, 0): the midnight that begins the date's day.
setHoursMidnight(t) == t - (t % HoursPerDay)

\* `${diffDays} days ago`
DaysAgoText(diffDays) == ToString(diffDays) \o " days ago"

\* Mutant: the two dates are differenced as they are, not at midnight.
getDaysAgo_elapsed(date, now) ==
    IF ~Truthy(date) THEN ""
    ELSE LET diffTime == now - date.at
             diffDays == diffTime \div HoursPerDay
         IN  IF diffDays = 0 THEN "Today"
             ELSE IF diffDays = 1 THEN "1 day ago"
             ELSE IF diffDays < 0 THEN "Future date"
             ELSE DaysAgoText(diffDays)

\* Mutant: the guard for an absent date is missing; new Date(null) is the epoch.
getDaysAgo_noGuard(date, now) ==
    LET priceDate == setHoursMidnight(IF date.type = "date" THEN date.at ELSE 0)
        diffTime == setHoursMidnight(now) - priceDate
        diffDays == diffTime \div HoursPerDay
    IN  IF diffDays = 0 THEN "Today"
        ELSE IF diffDays = 1 THEN "1 day ago"
        ELSE IF diffDays < 0 THEN "Future date"
        ELSE DaysAgoText(diffDays)

\* getDaysAgo(date), read when the clock says `now`.
getDaysAgo(date, now) ==
    IF ~Truthy(date) THEN ""
    ELSE LET priceDate == setHoursMidnight(date.at)
             diffTime == setHoursMidnight(now) - priceDate
             diffDays == diffTime \div HoursPerDay
         IN  IF diffDays = 0 THEN "Today"
             ELSE IF diffDays = 1 THEN "1 day ago"
             ELSE IF diffDays < 0 THEN "Future date"
             ELSE DaysAgoText(diffDays)

\* Mutant: the flag uses the two-day window of the holdings page.
isStale_twoDays(value, now) ==
    IF ~Truthy(value) THEN value
    ELSE Bool(value.at < now - HoldingStaleDays * HoursPerDay)

\* isStale of the price_last_updated cell:
\* params.value && new Date(params.value) < new Date(Date.now() - 7 days);
\* `&&` yields the value itself when it is falsy.
isStale(value, now) ==
    IF ~Truthy(value) THEN value
    ELSE Bool(value.at < now - StaleDays * HoursPerDay)

\* formatDaysAgo(dateString), read when the clock says `now`.
formatDaysAgo(dateString, now) ==
    LET diffTime == Abs(now - dateString)
        diffDays == diffTime \div HoursPerDay
    IN  IF diffDays = 0 THEN "Today"
        ELSE IF diffDays = 1 THEN "1 day ago"
        ELSE DaysAgoText(diffDays)

\* getDaysAgoColor(dateString), read when the clock says `now`.
getDaysAgoColor(dateString, now) ==
    LET diffTime == Abs(now - dateString)
        diffDays == diffTime \div HoursPerDay
    IN  IF diffDays > HoldingStaleDays THEN "error.main" ELSE "text.secondary"

\* The price_last_updated column renders a row.
RenderPriceUpdated ==
    /\ ~priceUpdated.rendered
    /\ LET daysAgo == getDaysAgo(priceUpdated.value, priceUpdated.now)
           stale == isStale(priceUpdated.value, priceUpdated.now)
       IN  priceUpdated' = [priceUpdated EXCEPT
               !.rendered = TRUE,
               !.daysAgo = daysAgo,
               !.isStale = stale,
               !.color = IF Truthy(stale) THEN "error" ELSE "text.primary",
               !.text = IF daysAgo # "" THEN daysAgo ELSE "No data"]
    /\ UNCHANGED <<holdingUpdated, holdingsVars, moneyVars, trend, range, target, dialogVars>>

\* The grid renders the same row again, `elapsed` hours later: getDaysAgo is
\* called with the same params.value and reads the clock anew.
RenderPriceUpdatedAgain(elapsed) ==
    /\ priceUpdated.rendered
    /\ ~priceUpdated.renderedAgain
    /\ priceUpdated' = [priceUpdated EXCEPT
           !.renderedAgain = TRUE,
           !.later = priceUpdated.now + elapsed,
           !.again = getDaysAgo(priceUpdated.value, priceUpdated.now + elapsed)]
    /\ UNCHANGED <<holdingUpdated, holdingsVars, moneyVars, trend, range, target, dialogVars>>

\* The Last Updated cell of a holding renders.
RenderHoldingUpdated ==
    /\ ~holdingUpdated.rendered
    /\ holdingUpdated' = [holdingUpdated EXCEPT
           !.rendered = TRUE,
           !.label = formatDaysAgo(holdingUpdated.updated_at, holdingUpdated.now),
           !.color = getDaysAgoColor(holdingUpdated.updated_at, holdingUpdated.now)]
    /\ UNCHANGED <<priceUpdated, holdingsVars, moneyVars, trend, range, target, dialogVars>>

\* ------------------------------------------------------------ CurrencyFormatter
\* Texts are sequences of characters.  The rupee sign is one character in
\* part_005 and HoldingRecommendations.tsx; ListHoldings.tsx and part_007 hold
\* the three characters its UTF-8 bytes make when read as Windows-1252.
RupeeSign == <<"U+20B9">>
RupeeMisencoded == <<"U+00E2", "U+201A", "U+00B9">>
DollarSign == <<"$">>
Comma == <<",">>

CurrencyCode == {"INR", "USD"}

\* An amount with at most two decimals: its sign, whole part and hundredths.
Amount(negative, whole, cents) == [negative |-> negative, whole |-> whole, cents |-> cents]

RECURSIVE Pow10(_)
Pow10(n) == IF n = 0 THEN 1 ELSE 10 * Pow10(n - 1)

\* The first n digits of 123456789.
RECURSIVE Counting(_)
Counting(n) == IF n = 0 THEN 0 ELSE 10 * Counting(n - 1) + n

\* Whole parts of every length up to MaxIntegerDigits: the least, the greatest
\* and one with distinct digits; and some in between.
WholeParts ==
    UNION {{Pow10(n - 1), Pow10(n) - 1, Counting(n)} : n \in 1..MaxIntegerDigits}
        \cup {0, 1000, 1001, 1100, 100000, 1234567}
Cents == {0, 5, 50, 99}
Amounts ==
    {value \in [negative : BOOLEAN, whole : WholeParts, cents : Cents] :
        value.negative => (value.whole > 0 \/ value.cents > 0)}

\* The decimal digits of a natural number.
RECURSIVE Digits(_)
Digits(n) == IF n < 10 THEN <<ToString(n)>> ELSE Digits(n \div 10) \o <<ToString(n % 10)>>

\* value < 0 and Math.abs(value)
isNegative(value) == value.negative
MathAbs(value) == [value EXCEPT !.negative = FALSE]

\* absValue.toFixed(2).split('.'): the integer part and the two decimals.
integerPart(value) == Digits(value.whole)
decimalPart(value) == <<ToString(value.cents \div 10), ToString(value.cents % 10)>>

\* integerPart.substring(integerPart.length - 3) and
\* integerPart.substring(0, integerPart.length - 3); substring takes a negative
\* index as 0.
lastThreeOf(s) == SubSeq(s, (IF Len(s) > 3 THEN Len(s) - 3 ELSE 0) + 1, Len(s))
otherNumbersOf(s) == SubSeq(s, 1, IF Len(s) > 3 THEN Len(s) - 3 ELSE 0)

\* s.replace(/\B(?=(\d{n})+(?!\d))/g, ','), s all digits: a comma goes in
\* front of every digit but the first that has a positive multiple of n digits
\* from itself to the end of s.
RECURSIVE groupFrom(_, _, _)
groupFrom(s, n, i) ==
    IF i > Len(s) THEN << >>
    ELSE (IF i > 1 /\ (Len(s) - i + 1) % n = 0 THEN Comma ELSE << >>)
            \o <<s[i]>> \o groupFrom(s, n, i + 1)

\* The INR branch up to formattedInteger: pairs to the left of the last three
\* digits, which get a comma in front when anything stands to their left.
formattedIntegerOf(s) ==
    LET otherNumbers == otherNumbersOf(s)
        lastThree == IF otherNumbers # << >> THEN Comma \o lastThreeOf(s) ELSE lastThreeOf(s)
    IN  groupFrom(otherNumbers, 2, 1) \o lastThree

\* Intl.NumberFormat('en-US', {style: 'currency', currency, minimumFractionDigits: 2,
\* maximumFractionDigits: 2}).format(value): the sign, the currency's symbol,
\* the integer part in groups of three, and two decimals.
IntlNumberFormatUS(value, currency) ==
    (IF isNegative(value) THEN <<"-">> ELSE << >>)
        \o (IF currency = "INR" THEN RupeeSign ELSE DollarSign)
        \o groupFrom(integerPart(value), 3, 1) \o <<".">> \o decimalPart(value)

\* amount.toLocaleString('en-IN', {maximumFractionDigits: 2}): the sign, the
\* integer part in Indian groups, and the decimals without trailing zeros.
toLocaleStringIN(value) ==
    (IF isNegative(value) THEN <<"-">> ELSE << >>)
        \o formattedIntegerOf(integerPart(value))
        \o (IF value.cents = 0 THEN << >>
            ELSE IF value.cents % 10 = 0 THEN <<".", ToString(value.cents \div 10)>>
            ELSE <<".">> \o decimalPart(value))

\* formatCurrency of ListHoldings.tsx, part_005 and HoldingRecommendations.tsx,
\* which differ in the symbol their template holds.
formatCurrencyWith(symbol, value, currency) ==
    IF currency = "INR"
    THEN LET absValue == MathAbs(value)
             formattedInteger == formattedIntegerOf(integerPart(absValue))
         IN  (IF isNegative(value) THEN <<"-">> ELSE << >>) \o symbol
                 \o formattedInteger \o <<".">> \o decimalPart(absValue)
    ELSE IntlNumberFormatUS(value, currency)

\* formatCurrency of part_005 (the holdings page).
formatCurrency(value, currency) == formatCurrencyWith(RupeeSign, value, currency)

\* formatCurrency of ListHoldings.tsx.
ListHoldings_formatCurrency(value, currency) == formatCurrencyWith(RupeeMisencoded, value, currency)

\* formatCurrency of HoldingRecommendations.tsx.
HoldingRecommendations_formatCurrency(value, currency) ==
    formatCurrencyWith(RupeeSign, value, currency)

\* formatCurrency of Recommendations.tsx: Intl.NumberFormat('en-US') for every currency.
Recommendations_formatCurrency(amount, currency) == IntlNumberFormatUS(amount, currency)

\* formatCurrency of part_007 (the dashboard): the page's currency decides the
\* symbol, en-IN the grouping.
Dashboard_formatCurrency(amount, currency) ==
    (IF currency = "INR" THEN RupeeMisencoded ELSE DollarSign) \o toLocaleStringIN(amount)

\* The pages that format money, by the file that holds their formatCurrency.
Pages == {"part_005", "ListHoldings", "HoldingRecommendations", "Recommendations", "part_007"}

\* The formatCurrency of a page.
formatCurrencyOn(page, value, currency) ==
    CASE page = "part_005" -> formatCurrency(value, currency)
      [] page = "ListHoldings" -> ListHoldings_formatCurrency(value, currency)
      [] page = "HoldingRecommendations" -> HoldingRecommendations_formatCurrency(value, currency)
      [] page = "Recommendations" -> Recommendations_formatCurrency(value, currency)
      [] OTHER -> Dashboard_formatCurrency(value, currency)

\* ---- partially populated rows
\* A row of a holdings or recommendations table as the server may send it:
\* the amount can be absent, and so can the currency field, which can also
\* hold a code outside CurrencyCode, well formed ('EUR') or not ('RUPEES', '').
EuroSign == <<"U+20AC">>
WellFormedCodes == {"INR", "USD", "EUR"}
RowCurrencies == WellFormedCodes \cup {"RUPEES", ""}
RowAmounts ==
    {value \in Amounts : value.whole \in {0, 999, 1234, 100000} /\ value.cents \in {0, 50}}
        \cup {Undefined}
PartialRows ==
    [value : RowAmounts, currency : RowCurrencies] \cup [value : RowAmounts]
HasCurrency(row) == "currency" \in DOMAIN row

Returned(text) == [thrown |-> "", formatted |-> text]
Thrown(exception) == [thrown |-> exception, formatted |-> << >>]

\* new Intl.NumberFormat('en-US', {style: 'currency', currency, ...}).format(value)
\* on a row: the constructor throws a TypeError when the currency is undefined
\* and a RangeError when it is not a well-formed code; an absent amount is
\* formatted as NaN.
IntlNumberFormatOnRow(row) ==
    IF ~HasCurrency(row) THEN Thrown("TypeError")
    ELSE IF row.currency \notin WellFormedCodes THEN Thrown("RangeError")
    ELSE IF row.value = Undefined
         THEN Returned((CASE row.currency = "INR" -> RupeeSign
                          [] row.currency = "USD" -> DollarSign
                          [] OTHER -> EuroSign) \o <<"N", "a", "N">>)
    ELSE IF row.currency = "EUR"
         THEN Returned((IF isNegative(row.value) THEN <<"-">> ELSE << >>) \o EuroSign
                        \o groupFrom(integerPart(row.value), 3, 1) \o <<".">>
                        \o decimalPart(row.value))
    ELSE Returned(IntlNumberFormatUS(row.value, row.currency))

\* The formatCurrency of a page on a row.  In the INR branch an absent amount
\* gives NaN.toFixed(2) = 'NaN', whose split has no decimal part; part_007
\* calls amount.toLocaleString, a TypeError when the amount is undefined.
formatCurrencyOnRow(page, row) ==
    CASE page \in {"part_005", "ListHoldings", "HoldingRecommendations"} ->
            IF HasCurrency(row) /\ row.currency = "INR"
            THEN IF row.value = Undefined
                 THEN Returned((IF page = "ListHoldings" THEN RupeeMisencoded ELSE RupeeSign)
                                \o <<"N", "a", "N", ".", "u", "n", "d", "e", "f", "i", "n", "e", "d">>)
                 ELSE Returned(formatCurrencyOn(page, row.value, "INR"))
            ELSE IntlNumberFormatOnRow(row)
      [] page = "Recommendations" -> IntlNumberFormatOnRow(row)
      [] OTHER ->
            IF row.value = Undefined THEN Thrown("TypeError")
            ELSE Returned(formatCurrencyOn(page, row.value,
                                           IF HasCurrency(row) /\ row.currency = "INR"
                                           THEN "INR" ELSE "USD"))

\* A cell renders the amount of a partially populated row.
RenderMoneyOnRow ==
    /\ ~money.rendered
    /\ LET r == formatCurrencyOnRow(money.page, money.row)
       IN  money' = [money EXCEPT !.rendered = TRUE, !.formatted = r.formatted, !.thrown = r.thrown]
    /\ UNCHANGED <<freshVars, holdingsVars, trend, range, target, dialogVars>>

\* A cell of one of the pages renders an amount.
RenderMoney ==
    /\ ~money.rendered
    /\ money' = [money EXCEPT
           !.rendered = TRUE,
           !.formatted = formatCurrencyOn(money.page, money.value, money.currency)]
    /\ UNCHANGED <<freshVars, holdingsVars, trend, range, target, dialogVars>>

\* ------------------------------------------------------------ idle values
TrendIdle == [closePrice |-> Null, ma20 |-> Null, ma200 |-> Null, result |-> Unset]
RangeIdle == [current |-> Null, low |-> Null, high |-> Null, result |-> Unset, columns |-> Unset]
TargetIdle == [criteria_name |-> S_empty, call_type |-> BUY, result |-> NoChip]

\* The Strategies page as constructed: the useState initial values.
DialogConstructed ==
    /\ strategies = << >>
    /\ formData = InitialFormData
    /\ error = ""
    /\ openDialog = FALSE
    /\ editMode = FALSE
    /\ currentStrategyId = Null
    /\ inflight = 0
    /\ validateResult = "none"
    /\ chips = << >>

PriceUpdatedIdle ==
    [value |-> Null, now |-> Today, rendered |-> FALSE, daysAgo |-> "", isStale |-> Null,
     color |-> "", text |-> "", renderedAgain |-> FALSE, later |-> Today, again |-> ""]
HoldingUpdatedIdle ==
    [updated_at |-> Today, now |-> Today, rendered |-> FALSE, label |-> "", color |-> ""]
MoneyIdle ==
    [value |-> Amount(FALSE, 0, 0), currency |-> "INR", page |-> "ListHoldings", rendered |-> FALSE,
     formatted |-> << >>, thrown |-> "", row |-> [value |-> Amount(FALSE, 0, 0)]]

\* The pages other than Strategies before they have loaded or rendered anything:
\* ListHoldings' useState initial values and the idle cells.
PagesIdle ==
    /\ holdings = Null
    /\ selectedAssetTypes = AllAssetTypes
    /\ summary = Null
    /\ priceUpdated = PriceUpdatedIdle
    /\ holdingUpdated = HoldingUpdatedIdle
    /\ money = MoneyIdle

\* ------------------------------------------------------------ specification: trend column
\* A row arrives with any combination of present and absent fields.
InitTrend ==
    /\ trend \in [closePrice : PriceInputs, ma20 : PriceInputs, ma200 : PriceInputs,
                  result : {Unset}]
    /\ range = RangeIdle
    /\ target = TargetIdle
    /\ DialogConstructed
    /\ PagesIdle

\* The ma_signal column renders the row: getMASignal(price_last_close, ma_20, ma_200).
RenderMASignal ==
    /\ trend.result = Unset
    /\ trend' = [trend EXCEPT !.result = getMASignal(trend.closePrice, trend.ma20, trend.ma200)]
    /\ UNCHANGED <<range, target, dialogVars, pageVars>>

NextTrend == RenderMASignal

SpecTrend == InitTrend /\ [][NextTrend]_vars

\* ------------------------------------------------------------ specification: 52-week column
InitRange ==
    /\ range \in [current : PriceInputs, low : PriceInputs, high : PriceInputs,
                  result : {Unset}, columns : {Unset}]
    /\ trend = TrendIdle
    /\ target = TargetIdle
    /\ DialogConstructed
    /\ PagesIdle

\* The 52w_range column computes the row's position.
Render52WeekPosition ==
    /\ range.result = Unset
    /\ range' = [range EXCEPT !.result = calculate52WeekPosition(range.current, range.low, range.high)]
    /\ UNCHANGED <<trend, target, dialogVars, pageVars>>

\* The grid renders a row: the price_last_close cell, and the 52w_range
\* column's valueGetter and renderCell.
RenderRangeColumns ==
    /\ range.columns = Unset
    /\ range' = [range EXCEPT !.columns =
           [value |-> valueGetter52w(range.current, range.low, range.high),
            cell |-> renderCell52w(range.current, range.low, range.high),
            priceColor |-> priceColorOf(range.current, range.low, range.high)]]
    /\ UNCHANGED <<trend, target, dialogVars, pageVars>>

NextRange == Render52WeekPosition

SpecRange == InitRange /\ [][NextRange]_vars

\* ------------------------------------------------------------ specification: 52-week columns of a row
NextRangeColumns == RenderRangeColumns

SpecRangeColumns == InitRange /\ [][NextRangeColumns]_vars

\* ------------------------------------------------------------ specification: strategy table tooltips
InitTarget ==
    /\ target \in [criteria_name : DisplayedNames, call_type : CallType, result : {NoChip}]
    /\ trend = TrendIdle
    /\ range = RangeIdle
    /\ DialogConstructed
    /\ PagesIdle

\* A formula chip of the strategy table renders its tooltip.
RenderTargetInfo ==
    /\ target.result = NoChip
    /\ target' = [target EXCEPT !.result = getTargetInfo(target.criteria_name, target.call_type)]
    /\ UNCHANGED <<trend, range, dialogVars, pageVars>>

NextTarget == RenderTargetInfo

SpecTarget == InitTarget /\ [][NextTarget]_vars

\* ------------------------------------------------------------ specification: Strategies dialog
\* The page once its first loadData has stored the table.  The table is one row
\* long: the dialog reads no row but the one whose Edit button was pressed.
Init ==
    /\ strategies \in {<<strategy>> : strategy \in ServerStrategies}
    /\ formData = InitialFormData
    /\ error = ""
    /\ openDialog = FALSE
    /\ editMode = FALSE
    /\ currentStrategyId = Null
    /\ inflight = 0
    /\ validateResult = "none"
    /\ chips = << >>
    /\ trend = TrendIdle
    /\ range = RangeIdle
    /\ target = TargetIdle
    /\ PagesIdle

Next ==
    \/ \E k \in 1..Len(strategies) : handleOpenDialogEdit(strategies[k])
    \/ handleOpenDialogNew
    \/ handleCloseDialog
    \/ \E call_type \in CallType : handleCallTypeChange(call_type)
    \/ handleSubmit
    \/ SaveResolved
    \/ \E detail \in ServerDetails : SaveRejected(detail)

Spec == Init /\ [][Next]_vars

\* ------------------------------------------------------------ specification: editing the criterion rows
\* The Strategies dialog with its criterion rows edited.  The table holds one
\* of two stored strategies: one without criteria, and one whose single
\* criterion carries the whole weight.
EditedFormulas ==
    { << >>, <<[criteria_name |-> S_pe_ratio, weight |-> One]>> }
EditedStrategies == [id : StrategyIds, call_type : {BUY}, formula : EditedFormulas]

InitEditing ==
    /\ strategies \in {<<strategy>> : strategy \in EditedStrategies}
    /\ formData = InitialFormData
    /\ error = ""
    /\ openDialog = FALSE
    /\ editMode = FALSE
    /\ currentStrategyId = Null
    /\ inflight = 0
    /\ validateResult = "none"
    /\ chips = << >>
    /\ trend = TrendIdle
    /\ range = RangeIdle
    /\ target = TargetIdle
    /\ PagesIdle

NextEditing ==
    \/ \E k \in 1..Len(strategies) : handleOpenDialogEdit(strategies[k])
    \/ handleOpenDialogNew
    \/ handleCloseDialog
    \/ handleAddCriteria
    \/ \E index \in 1..MaxCriteria : handleRemoveCriteria(index)
    \/ \E index \in 1..MaxCriteria, value \in SelectValues : handleCriteriaNameChange(index, value)
    \/ \E index \in 1..MaxCriteria, value \in WeightTexts : handleCriteriaWeightChange(index, value)
    \/ handleSubmit
    \/ SaveResolved
    \/ \E detail \in ServerDetails : SaveRejected(detail)

SpecEditing == InitEditing /\ [][NextEditing]_vars

\* ------------------------------------------------------------ specification: submitting a stored formula
\* The dialog as handleOpenDialog(strategy) leaves it, for every stored strategy,
\* and as handleOpenDialog() leaves it over an empty table.
InitValidate ==
    /\ \/ \E strategy \in ServerStrategies :
             /\ strategies = <<strategy>>
             /\ editMode = TRUE
             /\ currentStrategyId = Num(strategy.id)
             /\ formData = [call_type |-> strategy.call_type, formula |-> strategy.formula]
       \/ /\ strategies = << >>
          /\ editMode = FALSE
          /\ currentStrategyId = Null
          /\ formData = InitialFormData
    /\ error = ""
    /\ openDialog = TRUE
    /\ inflight = 0
    /\ validateResult = "none"
    /\ chips = renderChips(formData, TRUE)
    /\ trend = TrendIdle
    /\ range = RangeIdle
    /\ target = TargetIdle
    /\ PagesIdle

NextValidate ==
    \/ handleSubmit
    \/ SaveResolved
    \/ \E detail \in ServerDetails : SaveRejected(detail)

SpecValidate == InitValidate /\ [][NextValidate]_vars

\* ------------------------------------------------------------ specification: holdings summary
InitHoldings ==
    /\ PagesIdle
    /\ trend = TrendIdle
    /\ range = RangeIdle
    /\ target = TargetIdle
    /\ DialogConstructed

NextHoldings ==
    \/ holdings = Null /\ \E data \in ServerHoldings : loadHoldings(data)
    \/ \E t \in AllAssetTypes : handleAssetTypeChange(Toggled(selectedAssetTypes, t))

SpecHoldings == InitHoldings /\ [][NextHoldings]_vars

\* ------------------------------------------------------------ specification: valued holdings
\* The same page, loaded with holdings whose values the server derived from
\* quantity, average price and current price.
NextValuation ==
    \/ holdings = Null /\ \E data \in ValuedHoldings : loadHoldings(data)
    \/ \E t \in AllAssetTypes : handleAssetTypeChange(Toggled(selectedAssetTypes, t))

SpecValuation == InitHoldings /\ [][NextValuation]_vars

\* ------------------------------------------------------------ specification: price_last_updated column
InitPriceUpdated ==
    /\ \E value \in LastUpdatedInputs, now \in Clock :
          priceUpdated = [PriceUpdatedIdle EXCEPT !.value = value, !.now = now]
    /\ holdingUpdated = HoldingUpdatedIdle
    /\ holdings = Null
    /\ selectedAssetTypes = AllAssetTypes
    /\ summary = Null
    /\ money = MoneyIdle
    /\ trend = TrendIdle
    /\ range = RangeIdle
    /\ target = TargetIdle
    /\ DialogConstructed

NextPriceUpdated == RenderPriceUpdated

SpecPriceUpdated == InitPriceUpdated /\ [][NextPriceUpdated]_vars

\* ------------------------------------------------------------ specification: a row rendered twice
NextPriceUpdatedTwice ==
    \/ RenderPriceUpdated
    \/ \E elapsed \in 0..MaxHoursLater : RenderPriceUpdatedAgain(elapsed)

SpecPriceUpdatedTwice == InitPriceUpdated /\ [][NextPriceUpdatedTwice]_vars

\* ------------------------------------------------------------ specification: holdings' Last Updated cells
InitHoldingUpdated ==
    /\ \E t \in 0..((MaxDaysBack + MaxDaysAhead + 1) * HoursPerDay - 1), now \in Clock :
          holdingUpdated = [HoldingUpdatedIdle EXCEPT !.updated_at = t, !.now = now]
    /\ priceUpdated = PriceUpdatedIdle
    /\ holdings = Null
    /\ selectedAssetTypes = AllAssetTypes
    /\ summary = Null
    /\ money = MoneyIdle
    /\ trend = TrendIdle
    /\ range = RangeIdle
    /\ target = TargetIdle
    /\ DialogConstructed

NextHoldingUpdated == RenderHoldingUpdated

SpecHoldingUpdated == InitHoldingUpdated /\ [][NextHoldingUpdated]_vars

\* ------------------------------------------------------------ specification: formatted amounts
InitMoney ==
    /\ \E value \in Amounts, currency \in CurrencyCode, page \in Pages :
          money = [MoneyIdle EXCEPT !.value = value, !.currency = currency, !.page = page]
    /\ priceUpdated = PriceUpdatedIdle
    /\ holdingUpdated = HoldingUpdatedIdle
    /\ holdings = Null
    /\ selectedAssetTypes = AllAssetTypes
    /\ summary = Null
    /\ trend = TrendIdle
    /\ range = RangeIdle
    /\ target = TargetIdle
    /\ DialogConstructed

NextMoney == RenderMoney

SpecMoney == InitMoney /\ [][NextMoney]_vars

\* ------------------------------------------------------------ specification: amounts of partial rows
InitMoneyOnRow ==
    /\ \E row \in PartialRows, page \in Pages :
          money = [MoneyIdle EXCEPT !.row = row, !.page = page]
    /\ priceUpdated = PriceUpdatedIdle
    /\ holdingUpdated = HoldingUpdatedIdle
    /\ holdings = Null
    /\ selectedAssetTypes = AllAssetTypes
    /\ summary = Null
    /\ trend = TrendIdle
    /\ range = RangeIdle
    /\ target = TargetIdle
    /\ DialogConstructed

NextMoneyOnRow == RenderMoneyOnRow

SpecMoneyOnRow == InitMoneyOnRow /\ [][NextMoneyOnRow]_vars

\* ------------------------------------------------------------ properties: TrendClassifier
\* The inputs of the rendered row, as the claims speak of them.
AbsentOrZero(x) == x = Null \/ x = Undefined \/ x = Num(0)
TrendRendered == trend.result # Unset
TrendInputsPresent ==
    ~AbsentOrZero(trend.closePrice) /\ ~AbsentOrZero(trend.ma20) /\ ~AbsentOrZero(trend.ma200)

\* The table of signals over a = price > ma20, b = price > ma200, c = ma20 > ma200.
TrendTable(a, b, c) ==
    CASE a /\ b /\ c -> "Strong Bullish"
      [] a /\ b /\ ~c -> "Bullish"
      [] ~a /\ ~b /\ ~c -> "Strong Bearish"
      [] ~a /\ ~b /\ c -> "Bearish"
      [] OTHER -> "Neutral"

\* C1: for present non-zero price, ma20 and ma200 the signal is the one the table
\* gives for (price > ma20, price > ma200, ma20 > ma200): Strong Bullish iff all
\* three, Bullish iff a, b, not c, Strong Bearish iff none, Bearish iff only c,
\* Neutral otherwise.
C1_SignalTable ==
    (TrendRendered /\ TrendInputsPresent) =>
        trend.result.signal = TrendTable(trend.closePrice.val > trend.ma20.val,
                                         trend.closePrice.val > trend.ma200.val,
                                         trend.ma20.val > trend.ma200.val)

\* A row under both averages whose short average is above the long one: Bearish.
C1_Witness ==
    /\ TrendRendered /\ TrendInputsPresent
    /\ trend.closePrice.val <= trend.ma200.val
    /\ trend.ma200.val < trend.ma20.val
    /\ trend.result = SignalBearish

\* C2: the signal is No Data exactly when one of price, ma20, ma200 is null,
\* undefined or zero, whatever the other two hold.
C2_NoDataIffAbsentOrZero ==
    TrendRendered =>
        (trend.result.signal = "No Data" <=>
            (AbsentOrZero(trend.closePrice) \/ AbsentOrZero(trend.ma20)
                \/ AbsentOrZero(trend.ma200)))

\* A row whose only defect is a zero 200-day average.
C2_Witness ==
    /\ TrendRendered
    /\ trend.ma200 = Num(0)
    /\ ~AbsentOrZero(trend.closePrice) /\ ~AbsentOrZero(trend.ma20)
    /\ trend.result = SignalNoData

\* ------------------------------------------------------------ properties: RangePositioner
RangeRendered == range.result # Unset
RangeInputsPresent == IsNum(range.current) /\ IsNum(range.low) /\ IsNum(range.high)
RangeOrdered == RangeInputsPresent /\ range.low.val < range.high.val

\* C3: with present inputs and low < high the position lies in [0, 100].
C3_PositionInBounds ==
    (RangeRendered /\ RangeOrdered) =>
        /\ RatLeq(RatOfInt(0), range.result)
        /\ RatLeq(range.result, RatOfInt(100))

\* A live price that has crossed a stale 52-week high.
C3_Witness ==
    /\ RangeRendered /\ RangeOrdered
    /\ range.current.val > range.high.val
    /\ range.result = RatOfInt(100)

\* C4: with low < high, the low maps to 0 and the high to 100, a price below
\* the low to 0 and above the high to 100, and a price in between to
\* ((current - low) / (high - low)) * 100.
C4_EndpointsAndClamping ==
    (RangeRendered /\ RangeOrdered) =>
        LET c == range.current.val
            l == range.low.val
            h == range.high.val
        IN  /\ c = l => range.result = RatOfInt(0)
            /\ c = h => range.result = RatOfInt(100)
            /\ c < l => range.result = RatOfInt(0)
            /\ c > h => range.result = RatOfInt(100)
            /\ (l <= c /\ c <= h) =>
                   /\ range.result.num * (h - l) = (c - l) * 100 * range.result.den
                   /\ range.result.den > 0

\* A price strictly inside the band, positioned strictly between 0 and 100.
C4_Witness ==
    /\ RangeRendered /\ RangeOrdered
    /\ range.low.val < range.current.val
    /\ range.current.val < range.high.val
    /\ RatLt(RatOfInt(0), range.result)
    /\ RatLt(range.result, RatOfInt(100))

\* C5: the position is exactly 0 whenever one of current, low, high is null or
\* undefined, or high equals low, whatever the remaining inputs are.
C5_DegenerateIsZero ==
    (/\ RangeRendered
     /\ \/ range.current \in {Null, Undefined}
        \/ range.low \in {Null, Undefined}
        \/ range.high \in {Null, Undefined}
        \/ range.high = range.low) =>
        range.result = RatOfInt(0)

\* A price above a band that has collapsed to one point.
C5_Witness ==
    /\ RangeRendered /\ RangeInputsPresent
    /\ range.high = range.low
    /\ range.current.val > range.low.val
    /\ range.result = RatOfInt(0)

\* ------------------------------------------------------------ properties: StrategyScorer
\* The formula validateFormula was last applied to, as the claims speak of it.
Validated == validateResult # "none"
Weights == {formData.formula[i].weight : i \in 1..Len(formData.formula)}
NameOf(i) == formData.formula[i].criteria_name

\* A name that is not empty once white space is trimmed holds a character
\* that is not white space.
NonEmptyName(s) == \E i \in 1..Len(s) : s[i] \notin {" ", "\t", "\n"}
AllNamed == \A i \in 1..Len(formData.formula) : NonEmptyName(NameOf(i))
AllInRange == \A w \in Weights : 0 <= w /\ w <= One
\* |total / One - 1| <= 1/100
SumWithinTolerance == 100 * Abs(totalWeightOf(formData.formula) - One) <= One

\* C6: validateFormula accepts the formula if and only if every weight is in
\* [0, 1], the total is within 0.01 of 1.0 and every criterion name is
\* non-empty after trimming.
C6_AcceptsIffValid ==
    Validated =>
        (validateResult = "pass" <=> (AllInRange /\ SumWithinTolerance /\ AllNamed))

\* A formula (0.6, 0.4) of named criteria, accepted.
C6_Witness ==
    /\ validateResult = "pass"
    /\ Len(formData.formula) = 2
    /\ formData.formula[1].weight = 150
    /\ formData.formula[2].weight = 100

\* The error text that reports the formula's weight-sum mismatch.
SumMismatchError ==
    "Total weight must equal 1.0 (currently " \o toFixed2(totalWeightOf(formData.formula)) \o ")"

\* C7: a formula whose only defect is its total is rejected with the
\* weight-sum error, one whose only defect is an empty name with the
\* criterion-name error, one whose only defect is a weight outside [0, 1] with
\* the weight-range error; (0.6, 0.4) passes, (0.5, 0.6) is a sum mismatch and
\* a single unnamed criterion of weight 1.0 an empty name.
C7_ErrorKinds ==
    Validated =>
        /\ (~SumWithinTolerance /\ AllNamed /\ AllInRange) =>
               (validateResult = "fail" /\ error = SumMismatchError)
        /\ (SumWithinTolerance /\ ~AllNamed /\ AllInRange) =>
               (validateResult = "fail" /\ error = "All criteria must have a name")
        /\ (SumWithinTolerance /\ AllNamed /\ ~AllInRange) =>
               (validateResult = "fail" /\ error = "Each weight must be between 0 and 1")
        /\ (/\ Len(formData.formula) = 2 /\ AllNamed
            /\ formData.formula[1].weight = 150 /\ formData.formula[2].weight = 100) =>
               validateResult = "pass"
        /\ (/\ Len(formData.formula) = 2 /\ AllNamed
            /\ formData.formula[1].weight = 125 /\ formData.formula[2].weight = 150) =>
               (validateResult = "fail" /\ error = SumMismatchError)
        /\ formData.formula = <<[criteria_name |-> S_empty, weight |-> One]>> =>
               (validateResult = "fail" /\ error = "All criteria must have a name")

\* Named criteria weighing 1.1 and -0.1: the total is right, the weights are not.
C7_Witness ==
    /\ validateResult = "fail"
    /\ SumWithinTolerance /\ AllNamed /\ ~AllInRange
    /\ error = "Each weight must be between 0 and 1"

\* Every composite score the formula can produce: one per set of criteria
\* whose metric is on the favourable side.
Scores ==
    {compositeScore(formData.formula, favorable) :
        favorable \in SUBSET (1..Len(formData.formula))}

\* C8 as stated: the composite score of a validated formula lies in [0, 1].
C8_ScoreInUnitInterval ==
    validateResult = "pass" => \A score \in Scores : 0 <= score /\ score <= One

\* C8, amended: the composite score of a validated formula lies in [0, 1.01],
\* the tolerance of the weight-sum test letting the total exceed 1.0.
C8_ScoreWithinTolerance ==
    validateResult = "pass" => \A score \in Scores : 0 <= score /\ 100 * score <= 101 * One

\* A validated formula whose criteria, all favourable, score more than 1.0.
C8_Witness ==
    /\ validateResult = "pass"
    /\ \E score \in Scores : score > One

\* The registry of the claim: each criterion's threshold text.
RegistryThreshold(name) ==
    CASE name = S_pe_ratio -> "35"
      [] name = S_pegy_index -> "1.5"
      [] name = S_52w_range -> "28%"
Registry == {S_pe_ratio, S_pegy_index, S_52w_range}
TargetRendered == target.result # NoChip

\* C9: a registry criterion's target shows its fixed threshold (35, 1.5, 28%),
\* the same for both call types, with "<" and "lower is better" for BUY and
\* ">" and "higher is better" for SELL; the thresholds are those
\* AVAILABLE_CRITERIA describes.
C9_ThresholdAndDirection ==
    /\ (TargetRendered /\ target.criteria_name \in Registry) =>
           target.result =
               "Target: " \o (IF target.call_type = BUY THEN "<" ELSE ">")
                   \o RegistryThreshold(target.criteria_name)
                   \o (IF target.call_type = BUY THEN " (lower is better)"
                                                 ELSE " (higher is better)")
    /\ \A k \in 1..Len(AVAILABLE_CRITERIA) :
           /\ AVAILABLE_CRITERIA[k].value \in Registry
           /\ AVAILABLE_CRITERIA[k].description[2] \o
                  (IF AVAILABLE_CRITERIA[k].description[3] = "%)" THEN "%" ELSE "")
                  = RegistryThreshold(AVAILABLE_CRITERIA[k].value)

\* The 52-week criterion of a SELL strategy.
C9_Witness ==
    /\ TargetRendered
    /\ target.criteria_name = S_52w_range
    /\ target.call_type = SELL
    /\ target.result = "Target: >28% (higher is better)"

\* C10 as stated: a formula with valid weights and non-empty names passes
\* validation whatever the names, and each of its criteria whose name is
\* outside the registry shows "Pro-rata scoring", under BUY and under SELL.
C10_UnknownIsProRata ==
    (Validated /\ AllInRange /\ SumWithinTolerance /\ AllNamed) =>
        /\ validateResult = "pass"
        /\ \A i \in 1..Len(chips) :
               NameOf(i) \notin Registry => chips[i] = "Pro-rata scoring"

\* The name as getTargetInfo's switch sees it: lower-cased letter by letter,
\* its first space an underscore.
FirstSpace(s) == CHOOSE i \in 1..Len(s) : s[i] = " " /\ \A j \in 1..(i - 1) : s[j] # " "
Lowered(c) ==
    IF \E k \in 1..26 : UpperLetters[k] = c
    THEN LowerLetters[CHOOSE k \in 1..26 : UpperLetters[k] = c]
    ELSE c
Normalised(s) ==
    [i \in 1..Len(s) |->
        IF s[i] = " " /\ i = FirstSpace(s) THEN "_" ELSE Lowered(s[i])]

\* C10, amended: such a formula passes validation, and each of its criteria
\* whose name, lower-cased and with its first space replaced by an underscore,
\* is outside the registry shows "Pro-rata scoring", under BUY and under SELL.
C10_UnknownNormalisedIsProRata ==
    (Validated /\ AllInRange /\ SumWithinTolerance /\ AllNamed) =>
        /\ validateResult = "pass"
        /\ \A i \in 1..Len(chips) :
               Normalised(NameOf(i)) \notin Registry => chips[i] = "Pro-rata scoring"

\* A SELL strategy with the single criterion roe, accepted and shown as pro-rata.
C10_Witness ==
    /\ validateResult = "pass"
    /\ formData.call_type = SELL
    /\ formData.formula = <<[criteria_name |-> S_roe, weight |-> One]>>
    /\ chips = <<"Pro-rata scoring">>

\* C11: an invalid formula (sum mismatch, weight out of range, empty name) makes
\* validateFormula return false, with the error set to one of its three texts,
\* and the text names a field of the formula that is in fact defective: the
\* failure is a returned value the dialog shows, and the dialog stays open.
C11_FailureIsData ==
    (Validated /\ openDialog /\ ~(AllInRange /\ SumWithinTolerance /\ AllNamed)) =>
        /\ validateResult = "fail"
        /\ \/ error = SumMismatchError /\ ~SumWithinTolerance
           \/ error = ErrCriteriaName /\ ~AllNamed
           \/ error = ErrWeightRange /\ ~AllInRange

\* A formula with two defects, a blank name and a total of 1.1: the total is
\* the field reported.
C11_Witness ==
    /\ validateResult = "fail"
    /\ openDialog
    /\ ~AllNamed /\ ~SumWithinTolerance
    /\ error = "Total weight must equal 1.0 (currently 1.10)"

\* ------------------------------------------------------------ properties: PortfolioAggregator
Loaded == holdings # Null /\ summary # Null

\* The selected holdings, each named by its asset type and its place in the list.
SelectedPositions ==
    {<<t, i>> \in AllAssetTypes \X (1..MaxHoldings) :
        t \in selectedAssetTypes /\ i <= Len(holdings[t])}
UnselectedPositions ==
    {<<t, i>> \in AllAssetTypes \X (1..MaxHoldings) :
        t \notin selectedAssetTypes /\ i <= Len(holdings[t])}

RECURSIVE SumOver(_, _)
SumOver(positions, field) ==
    IF positions = {} THEN 0
    ELSE LET p == CHOOSE q \in positions : TRUE
         IN  holdings[p[1]][p[2]][field] + SumOver(positions \ {p}, field)

\* C12: profitLoss = current - invested; profitLossPct = profitLoss / invested
\* x 100 when invested > 0 and 0 otherwise; when no holding is selected, the
\* invested total, the current total, the profit/loss, its percentage and the
\* count are all 0.
C12_ProfitLoss ==
    Loaded =>
        /\ summary.totalProfitLoss = summary.totalCurrentValue - summary.totalInvested
        /\ summary.totalInvested > 0 =>
               /\ summary.totalProfitLossPercentage.den > 0
               /\ summary.totalProfitLossPercentage.num * summary.totalInvested
                      = 100 * summary.totalProfitLoss * summary.totalProfitLossPercentage.den
        /\ ~(summary.totalInvested > 0) => summary.totalProfitLossPercentage = RatOfInt(0)
        /\ SelectedPositions = {} =>
               /\ summary.totalInvested = 0
               /\ summary.totalCurrentValue = 0
               /\ summary.totalProfitLoss = 0
               /\ summary.totalProfitLossPercentage = RatOfInt(0)
               /\ summary.totalCount = 0

\* Invested 3, worth 4 now: a gain of 1, which is 100/3 per cent.
C12_Witness ==
    /\ Loaded
    /\ summary.totalInvested = 3
    /\ summary.totalCurrentValue = 4
    /\ summary.totalProfitLoss = 1
    /\ summary.totalProfitLossPercentage = [num |-> 100, den |-> 3]

\* C13: the invested total, the current total and the count are the sums, and
\* the number, over exactly the holdings whose asset type is selected; the
\* holdings of an unselected asset type add nothing to any of the three.
C13_SumsOverSelected ==
    Loaded =>
        /\ summary.totalInvested = SumOver(SelectedPositions, "invested_value")
        /\ summary.totalCurrentValue = SumOver(SelectedPositions, "current_value")
        /\ summary.totalCount = Cardinality(SelectedPositions)

\* Stocks and bonds are held, only bonds are selected: the stock is left out.
C13_Witness ==
    /\ Loaded
    /\ selectedAssetTypes = {"bonds"}
    /\ Len(holdings.stocks) = 1 /\ holdings.stocks[1].invested_value = 2
    /\ Len(holdings.bonds) = 1 /\ holdings.bonds[1].invested_value = 1
    /\ UnselectedPositions # {}
    /\ summary.totalInvested = 1
    /\ summary.totalCurrentValue = 3
    /\ summary.totalCount = 1

RECURSIVE SumProducts(_)
\* The sum over the positions of quantity x average price (1) and of
\* quantity x (current price if present, else average price) (2).
SumProducts(positions) ==
    IF positions = {} THEN <<0, 0>>
    ELSE LET p == CHOOSE q \in positions : TRUE
             row == holdings[p[1]][p[2]]
             rest == SumProducts(positions \ {p})
         IN  <<rest[1] + row.quantity * row.average_price,
               rest[2] + row.quantity * (IF row.current_price \in {Null, Undefined}
                                         THEN row.average_price
                                         ELSE row.current_price.val)>>

\* C14: the values the aggregator sums are quantity x average price and
\* quantity x (current price if present, else average price); a single holding
\* of quantity 10, average price 100 and current price 120 aggregates to
\* invested 1000, current 1200, profit/loss 200 and 20 per cent.
C14_HoldingValuation ==
    Loaded =>
        /\ summary.totalInvested = SumProducts(SelectedPositions)[1]
        /\ summary.totalCurrentValue = SumProducts(SelectedPositions)[2]
        /\ (/\ selectedAssetTypes = AllAssetTypes
            /\ holdings.etfs = << >>
            /\ Len(holdings.stocks) = 1
            /\ holdings.stocks[1].quantity = 10
            /\ holdings.stocks[1].average_price = 100
            /\ holdings.stocks[1].current_price = Num(120)) =>
               /\ summary.totalInvested = 1000
               /\ summary.totalCurrentValue = 1200
               /\ summary.totalProfitLoss = 200
               /\ summary.totalProfitLossPercentage = RatOfInt(20)

\* The holding (10, 100, 120) alone in the account, every asset type selected.
C14_Witness ==
    /\ Loaded
    /\ selectedAssetTypes = AllAssetTypes
    /\ holdings.etfs = << >>
    /\ Len(holdings.stocks) = 1
    /\ holdings.stocks[1].quantity = 10
    /\ holdings.stocks[1].average_price = 100
    /\ holdings.stocks[1].current_price = Num(120)
    /\ summary.totalInvested = 1000
    /\ summary.totalProfitLossPercentage = RatOfInt(20)

\* ------------------------------------------------------------ properties: FreshnessClassifier
\* The calendar day an hour falls in, and the whole days from the day of `t`
\* to the day of `now`.
DayOf(t) == t \div HoursPerDay
DayDiff(t, now) == DayOf(now) - DayOf(t)

PriceCellRendered == priceUpdated.rendered
PricePresent == priceUpdated.value.type = "date"
PriceDiffDays == DayDiff(priceUpdated.value.at, priceUpdated.now)

\* C15: for a present timestamp getDaysAgo returns 'Today' when the timestamp
\* falls on today's calendar day, whatever the two times of day, '1 day ago'
\* when it falls on yesterday, 'Future date' when it falls on a later day, and
\* '<n> days ago', n the number of calendar days, otherwise.
C15_DayGranularLabels ==
    (PriceCellRendered /\ PricePresent) =>
        priceUpdated.daysAgo =
            (CASE PriceDiffDays = 0 -> "Today"
               [] PriceDiffDays = 1 -> "1 day ago"
               [] PriceDiffDays < 0 -> "Future date"
               [] OTHER -> ToString(PriceDiffDays) \o " days ago")

\* A timestamp of the last hour of today read in the first hour of today.
C15_Witness ==
    /\ PriceCellRendered /\ PricePresent
    /\ priceUpdated.value.at = Today + HoursPerDay - 1
    /\ priceUpdated.now = Today
    /\ priceUpdated.daysAgo = "Today"

\* C16: for a present timestamp isStale is true if and only if the calendar-day
\* difference is greater than 7: 8 days prior is stale, 7 days prior and
\* 2 days prior are not, at every time of day.
C16_StaleIffOverSevenDays ==
    (PriceCellRendered /\ PricePresent) =>
        (Truthy(priceUpdated.isStale) <=> PriceDiffDays > 7)

\* C17: a null or absent last-updated value yields the empty label and an
\* isStale that is not true: the cell is not shown as stale and shows no day
\* count.
C17_AbsentIsNotStale ==
    (PriceCellRendered /\ priceUpdated.value \in {Null, Undefined, EmptyString}) =>
        /\ priceUpdated.daysAgo = ""
        /\ ~Truthy(priceUpdated.isStale)
        /\ priceUpdated.isStale # Bool(TRUE)
        /\ priceUpdated.color = "text.primary"
        /\ priceUpdated.text = "No data"

\* A row whose price_last_updated is null, rendered.
C17_Witness ==
    /\ PriceCellRendered
    /\ priceUpdated.value = Null
    /\ priceUpdated.daysAgo = ""
    /\ priceUpdated.color = "text.primary"

HoldingCellRendered == holdingUpdated.rendered
HoldingDiffDays == DayDiff(holdingUpdated.updated_at, holdingUpdated.now)

\* C18: on the holding screen a timestamp on today's calendar day is labelled
\* 'Today' at every time of day, a timestamp on a later day 'Future date', and
\* the holding is shown as stale if and only if the calendar-day difference is
\* greater than 2.
C18_HoldingDayGranular ==
    HoldingCellRendered =>
        /\ HoldingDiffDays = 0 => holdingUpdated.label = "Today"
        /\ HoldingDiffDays < 0 => holdingUpdated.label = "Future date"
        /\ holdingUpdated.color = "error.main" <=> HoldingDiffDays > 2

\* ------------------------------------------------------------ properties: CurrencyFormatter
MoneyRendered == money.rendered
NotComma(c) == c # ","

\* `g` is `digits` in Indian groups: the digits in order, a comma fourth from
\* the right and then every third place to its left, and none in front.
IndianGrouped(g, digits) ==
    /\ g # << >>
    /\ g[1] # ","
    /\ SelectSeq(g, NotComma) = digits
    /\ \A k \in 1..Len(g) : (g[Len(g) - k + 1] = ",") <=> (k >= 4 /\ (k - 4) % 3 = 0)

\* `text` is the rupee sign, the whole part in Indian groups, a point and the
\* two decimals of `value`.
RupeeText(text, value) ==
    /\ Len(text) >= 5
    /\ text[1] = "U+20B9"
    /\ IndianGrouped(SubSeq(text, 2, Len(text) - 3), Digits(value.whole))
    /\ SubSeq(text, Len(text) - 2, Len(text))
           = <<".", ToString(value.cents \div 10), ToString(value.cents % 10)>>

\* C19: for INR and a non-negative amount the text is the rupee sign, the
\* integer part with its last three digits as one group and the digits to
\* their left in pairs, a point and exactly two decimals; 1234567.5 reads
\* (rupee sign)12,34,567.50.  Stated of the holdings page and of the
\* recommendations page.
C19_IndianGrouping ==
    (/\ MoneyRendered
     /\ money.page \in {"part_005", "Recommendations"}
     /\ money.currency = "INR"
     /\ ~money.value.negative) =>
        /\ RupeeText(money.formatted, money.value)
        /\ money.value = Amount(FALSE, 1234567, 50) =>
               money.formatted = <<"U+20B9", "1", "2", ",", "3", "4", ",", "5", "6", "7", ".", "5", "0">>

\* C20: for INR and a negative amount the text is '-', then the rupee sign,
\* and from the rupee sign on it is the text of the absolute value, with
\* exactly two decimals; stated of ListHoldings.tsx, the dashboard (part_007)
\* and HoldingRecommendations.tsx.
C20_SignBeforeSymbol ==
    (/\ MoneyRendered
     /\ money.page \in {"ListHoldings", "part_007", "HoldingRecommendations"}
     /\ money.currency = "INR"
     /\ money.value.negative) =>
        /\ Head(money.formatted) = "-"
        /\ Tail(money.formatted) = formatCurrencyOn(money.page, MathAbs(money.value), "INR")
        /\ RupeeText(Tail(money.formatted), money.value)

\* ------------------------------------------------------------ properties: determinism and faults
RenderedTwice == priceUpdated.rendered /\ priceUpdated.renderedAgain

C22_NoFault ==
    money.rendered => money.thrown = ""

\* ------------------------------------------------------------ properties: missing data on the list screens
ColumnsRendered == range.columns # Unset
AnyPriceAbsent ==
    \/ range.current \in {Null, Undefined}
    \/ range.low \in {Null, Undefined}
    \/ range.high \in {Null, Undefined}

\* C23: whenever last close, 52-week low or 52-week high is absent, the
\* 52w_range column's value is null and its cell shows 'No data'; no position,
\* and so no 0, is displayed, sorted by or used to colour the bar or the price.
C23_MissingIsNotZero ==
    (ColumnsRendered /\ AnyPriceAbsent) =>
        /\ range.columns.value = Null
        /\ range.columns.value # RatOfInt(0)
        /\ range.columns.cell.text = "No data"
        /\ range.columns.cell.position = Null
        /\ range.columns.cell.color \notin {"success", "warning", "error"}
        /\ range.columns.priceColor = "text.primary"

\* A row with a close of 0 and no 52-week low.
C23_Witness ==
    /\ ColumnsRendered
    /\ range.current = Num(0)
    /\ range.low = Null
    /\ range.high = Num(3)
    /\ range.columns.value = Null
    /\ range.columns.cell.text = "No data"

\* ------------------------------------------------------------ C24
Passes == validateFormula(formData.formula, error).ok

\* C24: a submit whose formula fails validateFormula issues no request, leaves
\* the dialog open and the form data as they were and sets a non-empty error;
\* every step that issues a create or update request starts from a formula
\* that passes validateFormula and records that submit as passed.
C24_SubmitGated ==
    [][ /\ (handleSubmit /\ ~Passes) =>
              /\ inflight' = inflight
              /\ openDialog'
              /\ formData' = formData
              /\ error' # ""
        /\ (inflight' > inflight) => (openDialog /\ Passes /\ validateResult' = "pass") ]_vars

\* A submit was rejected while the request of an earlier, accepted submit is
\* still in flight: the count of requests stayed at one.
C24_Witness ==
    /\ validateResult = "fail"
    /\ inflight = 1
    /\ openDialog
    /\ ~Passes
    /\ error = ErrTotalWeight(125)

\* ------------------------------------------------------------ C25
SumMismatch(formula) == 100 * Abs(totalWeightOf(formula) - One) > One
Offends(item) == trim(item.criteria_name) = << >> \/ item.weight < 0 \/ item.weight > One
HasOffender(formula) == \E i \in 1..Len(formula) : Offends(formula[i])
FirstOffender(formula) ==
    CHOOSE i \in 1..Len(formula) :
        Offends(formula[i]) /\ \A j \in 1..(i - 1) : ~Offends(formula[j])

\* C25: after a rejected submit the error is the weight-sum message whenever
\* the sum is off, whatever the names and weights of the criteria; the initial
\* new-strategy formula gets the weight-sum message with 0.00; and when the sum
\* is right the first offending criterion in list order decides, its name
\* before its weight.
C25_ValidationOrder ==
    validateResult = "fail" =>
        LET formula == formData.formula
        IN  /\ SumMismatch(formula) => error = ErrTotalWeight(totalWeightOf(formula))
            /\ formData = InitialFormData =>
                   error = "Total weight must equal 1.0 (currently 0.00)"
            /\ (~SumMismatch(formula) /\ HasOffender(formula)) =>
                   error = IF trim(formula[FirstOffender(formula)].criteria_name) = << >>
                           THEN ErrCriteriaName ELSE ErrWeightRange

\* The form of a new strategy was submitted untouched: its only criterion has
\* an empty name and the weights sum to 0, and the weight-sum message is shown.
C25_Witness ==
    /\ validateResult = "fail"
    /\ ~editMode
    /\ formData = InitialFormData
    /\ trim(formData.formula[1].criteria_name) = << >>
    /\ error = "Total weight must equal 1.0 (currently 0.00)"

\* ------------------------------------------------------------ C26
\* C26: while the form holds a formula without criteria no step issues a
\* request, and a submit of it is rejected with the weight-sum message for 0.00.
C26_EmptyFormulaRejected ==
    [][ formData.formula = << >> =>
            /\ inflight' <= inflight
            /\ handleSubmit =>
                   /\ validateResult' = "fail"
                   /\ error' = "Total weight must equal 1.0 (currently 0.00)" ]_vars

\* A stored strategy without criteria was opened for editing and submitted.
C26_Witness ==
    /\ editMode
    /\ openDialog
    /\ strategies[1].formula = << >>
    /\ formData.formula = << >>
    /\ validateResult = "fail"
    /\ inflight = 0
    /\ error = ErrTotalWeight(0)

AboveMA20 == trend.closePrice.val > trend.ma20.val
AboveMA200 == trend.closePrice.val > trend.ma200.val
MA20AboveMA200 == trend.ma20.val > trend.ma200.val

\* C28: no rendered row has price > ma20, price <= ma200 and ma20 > ma200, nor
\* price <= ma20, price > ma200 and ma20 <= ma200; and the signal is Neutral
\* exactly when one and only one of price > ma20 and price > ma200 holds.
C28_NeutralIffExactlyOneAbove ==
    (TrendRendered /\ TrendInputsPresent) =>
        /\ ~(AboveMA20 /\ ~AboveMA200 /\ MA20AboveMA200)
        /\ ~(~AboveMA20 /\ AboveMA200 /\ ~MA20AboveMA200)
        /\ (trend.result.signal = "Neutral") <=> (AboveMA20 # AboveMA200)

\* A row whose price lies strictly between the short and the long average.
C28_Witness ==
    /\ TrendRendered /\ TrendInputsPresent
    /\ AboveMA20 /\ ~AboveMA200 /\ ~MA20AboveMA200
    /\ trend.closePrice.val < trend.ma200.val
    /\ trend.result = SignalNeutral

\* ------------------------------------------------------------ C29
\* C29: from the initial selection of all four asset types, after any sequence
\* of toggles at least one asset type is selected.
C29_SelectionNeverEmpty ==
    /\ selectedAssetTypes # {}
    /\ selectedAssetTypes \subseteq AllAssetTypes

\* Three of the four buttons were toggled off: the next toggle of the
\* remaining one is the change that is dropped.
C29_Witness ==
    /\ holdings # Null
    /\ selectedAssetTypes = {"bonds"}
    /\ Toggled(selectedAssetTypes, "bonds") = {}

\* ------------------------------------------------------------ C30
StaleLabels == {DaysAgoText(n) : n \in StaleDays..(MaxDaysBack + MaxDaysAhead + 1)}

\* C30: in the price_last_updated cell, when the stale flag is true the label
\* is '<n> days ago' with n >= 7, never 'Today', '1 day ago', 'Future date' or
\* empty; and when the label is 'Today' or 'Future date' the flag is not true.
C30_LabelAgreesWithFlag ==
    PriceCellRendered =>
        /\ priceUpdated.isStale = Bool(TRUE) =>
               /\ priceUpdated.daysAgo \in StaleLabels
               /\ priceUpdated.daysAgo \notin {"Today", "1 day ago", "Future date", ""}
        /\ priceUpdated.daysAgo \in {"Today", "Future date"} =>
               /\ priceUpdated.isStale # Bool(TRUE)
               /\ priceUpdated.color = "text.primary"

\* A timestamp of midnight seven days back read five hours into today: more
\* than seven times 24 hours have passed and the label counts seven days.
C30_Witness ==
    /\ PriceCellRendered
    /\ priceUpdated.value = Stamp(Today - StaleDays * HoursPerDay)
    /\ priceUpdated.now = Today + 5
    /\ priceUpdated.isStale = Bool(TRUE)
    /\ priceUpdated.color = "error"
    /\ priceUpdated.daysAgo = "7 days ago"

====
